---- MODULE Spec2Model ----
(***************************************************************************)
(* Multi-Model-Chat-Comparator: the request dispatch (App.handleSubmit,    *)
(* ProviderFactory.executeRequest) and the three provider stream decoders  *)
(* (handleStreamingResponse) of src/api/providers.js.                      *)
(*                                                                         *)
(* Text is a sequence of characters (strings of length one or symbolic     *)
(* names); a streamed body is a sequence of bytes.  The character "D"      *)
(* stands for the six characters of the SSE marker 'data: ', "NL" for      *)
(* '\n', "SP" for a blank, and a JSON object is written "{" x "}" where x  *)
(* names its interior (JsonDoc gives the parsed value).                    *)
(***************************************************************************)
EXTENDS Integers, Sequences, FiniteSets, TLC

\* ------------------------------------------------------------------ bounds
\* lines in a streamed body
MaxLines == 3

\* ------------------------------------------------------- program constants
Null == "null"

\* the prompt text handed to makeRequest
PromptText == <<"S", "a", "y", "SP", "O", "K">>

\* window.prompt.length: providers.js:207 reads the identifier `prompt`,
\* which is no parameter of OpenAIProvider.handleStreamingResponse and so
\* resolves to the browser global function window.prompt(message, default),
\* whose two parameters are optional.
GlobalPromptLength == 0

\* ---------------------------------------------------------------- helpers
RECURSIVE Flatten(_)
Flatten(ss) == IF ss = <<>> THEN <<>> ELSE Head(ss) \o Flatten(Tail(ss))

\* String.prototype.trim() === '' : only blanks
IsBlank(s) == \A i \in 1..Len(s) : s[i] = "SP"

RECURSIVE TrimLeft(_)
TrimLeft(s) == IF s # <<>> /\ Head(s) = "SP" THEN TrimLeft(Tail(s)) ELSE s

RECURSIVE TrimRight(_)
TrimRight(s) ==
    IF s # <<>> /\ s[Len(s)] = "SP" THEN TrimRight(SubSeq(s, 1, Len(s) - 1)) ELSE s

Trim(s) == TrimRight(TrimLeft(s))

\* Metrics.estimateTokenCount on a text of the given length
CeilDiv4(n) == (n + 3) \div 4

estimateTokenCount(text) == IF text = <<>> THEN 0 ELSE CeilDiv4(Len(text))

\* ------------------------------------------------------------ JSON values
\* The parsed value of a JSON object, by the name of its interior.  Fields
\* a handler reads with `?.` and `||` are given their falsy value when the
\* object lacks them: <<>> for a text, 0 for a counter, Null for a reason.
EmptyDoc ==
    [ hasChoices |-> FALSE, choiceContent |-> <<>>,
      type |-> "", text |-> <<>>, input_tokens |-> 0, output_tokens |-> 0,
      stop_reason |-> Null,
      hasParts |-> FALSE, parts |-> <<>>,
      hasUsageMetadata |-> FALSE, promptTokenCount |-> 0, candidatesTokenCount |-> 0 ]

OaiDelta(t) == [EmptyDoc EXCEPT !.hasChoices = TRUE, !.choiceContent = <<t>>]
AntDelta(t) == [EmptyDoc EXCEPT !.type = "content_block_delta", !.text = t]
AntStart(n) == [EmptyDoc EXCEPT !.type = "message_start", !.input_tokens = n]
AntMsgDelta(out, stop) ==
    [EmptyDoc EXCEPT !.type = "message_delta", !.output_tokens = out, !.stop_reason = stop]
GooParts(ps) == [EmptyDoc EXCEPT !.hasParts = TRUE, !.parts = ps]
GooUsage(d, i, o) ==
    [d EXCEPT !.hasUsageMetadata = TRUE, !.promptTokenCount = i, !.candidatesTokenCount = o]

JsonDoc(x) ==
    CASE x = "oai_O"       -> OaiDelta(<<"O">>)
      [] x = "oai_K"       -> OaiDelta(<<"K">>)
      [] x = "oai_E"       -> OaiDelta(<<"E">>)
      [] x = "oai_fin"     -> OaiDelta(<<>>)
      [] x = "ant_O"       -> AntDelta(<<"O">>)
      [] x = "ant_K"       -> AntDelta(<<"K">>)
      [] x = "ant_E"       -> AntDelta(<<"E">>)
      [] x = "ant_start"   -> AntStart(3)
      [] x = "ant_end"     -> AntMsgDelta(2, "end_turn")
      [] x = "ant_max"     -> AntMsgDelta(0, "max_tokens")
      [] x = "goo_O"       -> GooParts(<<<<"O">>>>)
      [] x = "goo_K"       -> GooParts(<<<<"K">>>>)
      [] x = "goo_E"       -> GooParts(<<<<"E">>>>)
      [] x = "goo_OK"      -> GooParts(<<<<"O">>, <<"K">>>>)
      [] x = "goo_K_usage" -> GooUsage(GooParts(<<<<"K">>>>), 3, 1)
      [] x = "ant_error"   -> [EmptyDoc EXCEPT !.type = "error"]
      [] OTHER             -> EmptyDoc

Interiors ==
    { "oai_O", "oai_K", "oai_E", "oai_fin",
      "ant_O", "ant_K", "ant_E", "ant_start", "ant_end", "ant_max",
      "goo_O", "goo_K", "goo_E", "goo_OK", "goo_K_usage", "obj",
      "ant_error", "err" }

\* JSON.parse(data) returns a value exactly when data, blanks around it
\* ignored, is one complete object; it throws on anything else.
JsonValid(data) ==
    LET d == Trim(data) IN Len(d) = 3 /\ d[1] = "{" /\ d[3] = "}" /\ d[2] \in Interiors

JsonParse(data) == JsonDoc(Trim(data)[2])

\* ------------------------------------------------------ error classification
\* An error message is known by the patterns the ErrorHandler looks for
\* with String.prototype.includes.
ErrorMessages ==
    { "Failed to fetch", "network error", "HTTP 401", "HTTP 429", "HTTP 500",
      "Overloaded", "model: claude-x", "The operation timed out (timeout)",
      "The model gpt-x does not exist", "You exceeded your current quota",
      "overloaded_error", "Blocked for SAFETY",
      "Unexpected token < in JSON", "Cannot read properties of undefined",
      "Unknown provider", "fetch failed", "terminated" }

Includes(msg, pat) ==
    pat \in
      CASE msg = "Failed to fetch" -> {"Failed to fetch"}
        [] msg = "HTTP 401" -> {"401"}
        [] msg = "HTTP 429" -> {"429"}
        [] msg = "Overloaded" -> {}
        [] msg = "model: claude-x" -> {"model:", "model"}
        [] msg = "The operation timed out (timeout)" -> {"timeout"}
        [] msg = "The model gpt-x does not exist" -> {"model", "does not exist"}
        [] msg = "You exceeded your current quota" -> {"quota"}
        [] msg = "overloaded_error" -> {"overloaded"}
        [] msg = "Blocked for SAFETY" -> {"SAFETY"}
        [] OTHER -> {}

parseOpenAIError(message) ==
    IF Includes(message, "401") \/ Includes(message, "Incorrect API key")
      THEN [message |-> "Invalid API key", type |-> "auth"]
    ELSE IF Includes(message, "429") \/ Includes(message, "Rate limit")
      THEN [message |-> "Rate limit exceeded", type |-> "rate_limit"]
    ELSE IF Includes(message, "quota")
      THEN [message |-> "Quota exceeded", type |-> "quota"]
    ELSE IF Includes(message, "model") /\ Includes(message, "does not exist")
      THEN [message |-> "Model not available", type |-> "model_not_found"]
    ELSE IF Includes(message, "timeout") \/ Includes(message, "ECONNABORTED")
      THEN [message |-> "Request timed out", type |-> "timeout"]
    ELSE IF Includes(message, "Failed to fetch") \/ Includes(message, "NetworkError")
      THEN [message |-> "Network error", type |-> "network"]
    ELSE [message |-> message, type |-> "unknown"]

parseAnthropicError(message) ==
    IF Includes(message, "401") \/ Includes(message, "authentication")
      THEN [message |-> "Invalid API key", type |-> "auth"]
    ELSE IF Includes(message, "429") \/ Includes(message, "rate_limit")
      THEN [message |-> "Rate limit exceeded", type |-> "rate_limit"]
    ELSE IF Includes(message, "overloaded")
      THEN [message |-> "Service overloaded", type |-> "overloaded"]
    ELSE IF Includes(message, "model_not_found") \/ Includes(message, "model does not exist")
            \/ Includes(message, "invalid model")
      THEN [message |-> "Model not available", type |-> "model_not_found"]
    ELSE IF Includes(message, "timeout")
      THEN [message |-> "Request timed out", type |-> "timeout"]
    ELSE IF Includes(message, "Failed to fetch") \/ Includes(message, "NetworkError")
      THEN [message |-> "Network error", type |-> "network"]
    ELSE [message |-> message, type |-> "unknown"]

parseGoogleError(message) ==
    IF Includes(message, "401") \/ Includes(message, "API key")
      THEN [message |-> "Invalid API key", type |-> "auth"]
    ELSE IF Includes(message, "429") \/ Includes(message, "quota")
      THEN [message |-> "Rate limit or quota exceeded", type |-> "rate_limit"]
    ELSE IF Includes(message, "404") \/ Includes(message, "not found")
      THEN [message |-> "Model not found", type |-> "model_not_found"]
    ELSE IF Includes(message, "SAFETY")
      THEN [message |-> "Content filtered by safety settings", type |-> "safety"]
    ELSE IF Includes(message, "timeout")
      THEN [message |-> "Request timed out", type |-> "timeout"]
    ELSE IF Includes(message, "Failed to fetch") \/ Includes(message, "NetworkError")
      THEN [message |-> "Network error", type |-> "network"]
    ELSE [message |-> message, type |-> "unknown"]

\* ErrorHandler.parseError: a provider that is none of the three keeps the
\* raw message and the type 'unknown'
parseError(message, provider) ==
    CASE provider = "openai"    -> parseOpenAIError(message)
      [] provider = "anthropic" -> parseAnthropicError(message)
      [] provider = "google"    -> parseGoogleError(message)
      [] OTHER                  -> [message |-> message, type |-> "unknown"]

\* ------------------------------------------------------------ result records
\* What a makeRequest / handleStreamingResponse call returns.  A field the
\* code leaves out of the object literal is Null (texts and reasons) or
\* Absent (counters).
Absent == -1

\* estimatedCost: null
NoCost == -2

\* estimatedCost is Absent until Priced, which knows the model of the
\* request, puts it in.
NoFields ==
    [ error |-> Null, errorType |-> Null, warning |-> Null,
      warningSuggestion |-> Null, text |-> <<>>,
      inputTokens |-> Absent, outputTokens |-> Absent, totalTokens |-> Absent,
      estimatedCost |-> Absent,
      stopReason |-> Null, finishReason |-> Null, streamed |-> FALSE ]

ErrorRecord(info, text) ==
    [NoFields EXCEPT !.error = info.message, !.errorType = info.type, !.text = text]

TextRecord(text, inTok, outTok, total, warning) ==
    [NoFields EXCEPT !.text = text, !.inputTokens = inTok, !.outputTokens = outTok,
                     !.totalTokens = total, !.warning = warning]

\* A warning: its message, and what its suggestion tells the user to do
\* ("no_content": nothing beyond the message).
Warning(message, advice) == [message |-> message, advice |-> advice]

WarningRecord(text, inTok, outTok, total, w) ==
    [TextRecord(text, inTok, outTok, total, w.message)
       EXCEPT !.warningSuggestion = w.advice]

\* an emptiness test that also takes a text of fewer than ten characters
IsEmptyTextOrShort(text) == text = <<>> \/ IsBlank(text) \/ Len(Trim(text)) < 10

\* !completion || completion.trim() === ''
IsEmptyText(text) == text = <<>> \/ IsBlank(text)

\* -------------------------------------------------------------- TextDecoder
\* The characters whose UTF-8 encoding takes two bytes (a JSON interior
\* whose text holds a non-ASCII letter); every other character is one byte
\* equal to itself.
MultiByteChars == {"oai_E", "ant_E", "goo_E"}

Utf8Bytes(c) ==
    CASE c = "oai_E" -> <<"oai_E/1", "oai_E/2">>
      [] c = "ant_E" -> <<"ant_E/1", "ant_E/2">>
      [] c = "goo_E" -> <<"goo_E/1", "goo_E/2">>
      [] OTHER       -> <<c>>

LeadBytes == {Utf8Bytes(c)[1] : c \in MultiByteChars}
ContBytes == {Utf8Bytes(c)[2] : c \in MultiByteChars}
CharOfLead(b) == CHOOSE c \in MultiByteChars : Utf8Bytes(c)[1] = b

\* decoder.decode(value, {stream: true}): an incomplete sequence at the end
\* of a chunk is kept for the next call; an ill-formed one becomes U+FFFD.
RECURSIVE Utf8Decode(_, _, _)
Utf8Decode(pending, bytes, out) ==
    IF bytes = <<>> THEN [chars |-> out, pending |-> pending]
    ELSE LET b == Head(bytes) IN
         IF pending # <<>>
           THEN IF b = Utf8Bytes(CharOfLead(pending[1]))[2]
                  THEN Utf8Decode(<<>>, Tail(bytes), Append(out, CharOfLead(pending[1])))
                  ELSE Utf8Decode(<<>>, bytes, Append(out, "FFFD"))
         ELSE IF b \in LeadBytes THEN Utf8Decode(<<b>>, Tail(bytes), out)
         ELSE IF b \in ContBytes THEN Utf8Decode(<<>>, Tail(bytes), Append(out, "FFFD"))
         ELSE Utf8Decode(<<>>, Tail(bytes), Append(out, b))

\* String.prototype.split('\n'): always at least one piece
RECURSIVE SplitNL(_, _)
SplitNL(chars, cur) ==
    IF chars = <<>> THEN <<cur>>
    ELSE IF Head(chars) = "NL" THEN <<cur>> \o SplitNL(Tail(chars), <<>>)
    ELSE SplitNL(Tail(chars), Append(cur, Head(chars)))

\* ------------------------------------------------------------ line handlers
\* The local variables of a handleStreamingResponse call.
NewStream ==
    [ pending |-> <<>>, buffer |-> <<>>, fullText |-> <<>>,
      inputTokens |-> 0, outputTokens |-> 0, stopReason |-> Null,
      deltas |-> <<>> ]

\* fullText += content; onChunk(content)
Deliver(st, content) ==
    [st EXCEPT !.fullText = @ \o content, !.deltas = Append(@, content)]

StartsWithData(line) == line # <<>> /\ Head(line) = "D"

\* A line whose payload is not valid JSON (for the SSE decoders the line
\* carries the marker and is not the [DONE] sentinel).
IsMalformed(provider, line) ==
    IF provider = "google" THEN ~IsBlank(line) /\ ~JsonValid(line)
    ELSE /\ StartsWithData(line)
         /\ ~(provider = "openai" /\ Tail(line) = <<"[DONE]">>)
         /\ ~JsonValid(Tail(line))

\* providers.js:168-184 and, with the same statements, 190-203
OpenAIHandleLine(st, line, throws) ==
    IF ~StartsWithData(line) THEN st
    ELSE LET data == Tail(line) IN
         IF data = <<"[DONE]">> THEN st
         ELSE IF ~JsonValid(data) THEN st
         ELSE LET parsed == JsonParse(data) IN
              IF ~parsed.hasChoices THEN st
              ELSE LET content == IF parsed.choiceContent = <<>> THEN <<>>
                                  ELSE parsed.choiceContent[1] IN
                   IF content # <<>> THEN Deliver(st, content) ELSE st

\* providers.js:477-500
AnthropicHandleLine(st, line, throws) ==
    IF ~StartsWithData(line) THEN st
    ELSE LET data == Tail(line) IN
         IF ~JsonValid(data) THEN st
         ELSE LET parsed == JsonParse(data) IN
              IF parsed.type = "content_block_delta"
                THEN IF parsed.text # <<>> THEN Deliver(st, parsed.text) ELSE st
              ELSE IF parsed.type = "message_start"
                THEN [st EXCEPT !.inputTokens = parsed.input_tokens]
              ELSE IF parsed.type = "message_delta"
                THEN [st EXCEPT !.outputTokens = parsed.output_tokens,
                                !.stopReason = IF parsed.stop_reason # Null
                                               THEN parsed.stop_reason ELSE @]
              ELSE st

\* providers.js:506-523
AnthropicFlushLine(st, line, throws) ==
    IF ~StartsWithData(line) THEN st
    ELSE LET data == Tail(line) IN
         IF ~JsonValid(data) THEN st
         ELSE LET parsed == JsonParse(data) IN
              IF parsed.type = "content_block_delta"
                THEN IF parsed.text # <<>> THEN Deliver(st, parsed.text) ELSE st
              ELSE IF parsed.type = "message_delta"
                THEN [st EXCEPT !.outputTokens = IF parsed.output_tokens # 0
                                                 THEN parsed.output_tokens ELSE @,
                                !.stopReason = IF parsed.stop_reason # Null
                                               THEN parsed.stop_reason ELSE @]
              ELSE st

\* providers.js:805-826 and, with the same statements, 832-849.  A throwing
\* onChunk leaves the try block before the usage counters are read.
GoogleHandleLine(st, line, throws) ==
    IF IsBlank(line) THEN st
    ELSE IF ~JsonValid(line) THEN st
    ELSE LET parsed == JsonParse(line)
             content == IF parsed.hasParts /\ parsed.parts # <<>>
                        THEN parsed.parts[1] ELSE <<>>
             st1 == IF content # <<>> THEN Deliver(st, content) ELSE st
         IN IF content # <<>> /\ throws THEN st1
            ELSE IF parsed.hasUsageMetadata
              THEN [st1 EXCEPT !.inputTokens = IF parsed.promptTokenCount # 0
                                               THEN parsed.promptTokenCount ELSE @,
                               !.outputTokens = IF parsed.candidatesTokenCount # 0
                                                THEN parsed.candidatesTokenCount ELSE @]
            ELSE st1

HandleLine(provider, st, line, throws) ==
    CASE provider = "openai"    -> OpenAIHandleLine(st, line, throws)
      [] provider = "anthropic" -> AnthropicHandleLine(st, line, throws)
      [] provider = "google"    -> GoogleHandleLine(st, line, throws)

FlushLine(provider, st, line, throws) ==
    CASE provider = "openai"    -> OpenAIHandleLine(st, line, throws)
      [] provider = "anthropic" -> AnthropicFlushLine(st, line, throws)
      [] provider = "google"    -> GoogleHandleLine(st, line, throws)

\* HandleLines with the try/catch around the for loop instead of inside
\* it: a line that fails to parse ends the handling of the chunk's lines
RECURSIVE HandleLinesAbort(_, _, _, _)
HandleLinesAbort(provider, st, lines, throws) ==
    IF lines = <<>> THEN st
    ELSE IF IsMalformed(provider, Head(lines)) THEN st
    ELSE HandleLinesAbort(provider, HandleLine(provider, st, Head(lines), throws),
                          Tail(lines), throws)

RECURSIVE HandleLines(_, _, _, _)
HandleLines(provider, st, lines, throws) ==
    IF lines = <<>> THEN st
    ELSE HandleLines(provider, HandleLine(provider, st, Head(lines), throws),
                     Tail(lines), throws)

RECURSIVE FlushLines(_, _, _, _)
FlushLines(provider, st, lines, throws) ==
    IF lines = <<>> THEN st
    ELSE FlushLines(provider, FlushLine(provider, st, Head(lines), throws),
                    Tail(lines), throws)

\* PopLine with the partial line thrown away instead of kept
PopLineDropped(lines) == <<>>

\* buffer = lines.pop() || ''
PopLine(lines) == lines[Len(lines)]

\* One turn of the read loop on a chunk (providers.js:164-184, 473-500,
\* 799-826): decode, append to the buffer, split, keep the last piece,
\* handle the others.
LoopBody(provider, st, value, throws) ==
    LET dec   == Utf8Decode(st.pending, value, <<>>)
        lines == SplitNL(st.buffer \o dec.chars, <<>>)
        st1   == [st EXCEPT !.pending = dec.pending, !.buffer = PopLine(lines)]
    IN HandleLines(provider, st1, SubSeq(lines, 1, Len(lines) - 1), throws)

\* After the loop (providers.js:187-204, 503-524, 829-850)
Flush(provider, st, throws) ==
    IF st.buffer # <<>> /\ ~IsBlank(st.buffer)
      THEN FlushLines(provider, st, SplitNL(st.buffer, <<>>), throws)
      ELSE st

\* providers.js:206-218
OpenAIFinish(st) ==
    LET inputTokens  == CeilDiv4(GlobalPromptLength)
        outputTokens == estimateTokenCount(st.fullText)
    IN [TextRecord(st.fullText, inputTokens, outputTokens,
                   inputTokens + outputTokens, Null) EXCEPT !.streamed = TRUE]

\* hasEmptyText || hasProblematicStopReason
AnthropicStreamWarnsEither(hasEmptyText, hasProblematicStopReason) ==
    hasEmptyText \/ hasProblematicStopReason

\* if (hasEmptyText && hasProblematicStopReason), providers.js:538
AnthropicStreamWarns(hasEmptyText, hasProblematicStopReason) ==
    hasEmptyText /\ hasProblematicStopReason

\* providers.js:539-570
AnthropicStreamWarning(stopReason) ==
    CASE stopReason = "end_turn" ->
           Warning("Claude Completed Turn with Empty Response", "rephrase_or_retry")
      [] stopReason = "max_tokens" ->
           Warning("Response Truncated (Max Tokens Reached)", "increase_max_tokens")
      [] stopReason = "stop_sequence" ->
           Warning("Response Stopped at Stop Sequence", "technical_details")
      [] OTHER -> Warning("Empty Response from Claude", "no_content")

\* providers.js:526-599
AnthropicFinish(st) ==
    LET inputTokens  == IF st.inputTokens = 0 THEN estimateTokenCount(PromptText)
                        ELSE st.inputTokens
        outputTokens == IF st.outputTokens = 0 THEN estimateTokenCount(st.fullText)
                        ELSE st.outputTokens
        hasEmptyText == IsEmptyText(st.fullText)
        hasProblematicStopReason ==
            st.stopReason \in {"end_turn", "max_tokens", "stop_sequence"}
    IN IF AnthropicStreamWarns(hasEmptyText, hasProblematicStopReason)
         THEN [WarningRecord(st.fullText, inputTokens, outputTokens,
                             inputTokens + outputTokens,
                             AnthropicStreamWarning(st.stopReason))
                 EXCEPT !.stopReason = st.stopReason, !.streamed = TRUE]
         ELSE [TextRecord(st.fullText, inputTokens, outputTokens,
                          inputTokens + outputTokens, Null)
                 EXCEPT !.stopReason = st.stopReason, !.streamed = TRUE]

\* providers.js:852-866
GoogleFinish(st) ==
    LET inputTokens  == IF st.inputTokens = 0 THEN estimateTokenCount(PromptText)
                        ELSE st.inputTokens
        outputTokens == IF st.outputTokens = 0 THEN estimateTokenCount(st.fullText)
                        ELSE st.outputTokens
    IN [TextRecord(st.fullText, inputTokens, outputTokens,
                   inputTokens + outputTokens, Null) EXCEPT !.streamed = TRUE]

Finish(provider, st) ==
    CASE provider = "openai"    -> OpenAIFinish(st)
      [] provider = "anthropic" -> AnthropicFinish(st)
      [] provider = "google"    -> GoogleFinish(st)

\* The catch of handleStreamingResponse (providers.js:219-228, 600-609,
\* 867-876): the error record keeps the text assembled so far.
StreamCatch(provider, st, message) ==
    ErrorRecord(parseError(message, provider), st.fullText)

\* handleStreamingResponse on a body that arrives as one chunk and is then
\* closed: one turn of the loop, the flush, the record.
DecodeWhole(provider, body, throws) ==
    Finish(provider, Flush(provider, LoopBody(provider, NewStream, body, throws), throws))

\* ======================================================================
\* makeRequest and ProviderFactory.executeRequest
\* ======================================================================
Providers == {"openai", "anthropic", "google"}

Obj(x) == <<"{", x, "}">>
Sse(x) == <<"D">> \o Obj(x)

\* A body as text: each line with the terminator it owns.
Line(chars, term) == [chars |-> chars, term |-> term]

TermLines(lines, terminated) ==
    [i \in 1..Len(lines) |-> Line(lines[i], i < Len(lines) \/ terminated)]

RECURSIVE Render(_)
Render(tls) ==
    IF tls = <<>> THEN <<>>
    ELSE Head(tls).chars \o (IF Head(tls).term THEN <<"NL">> ELSE <<>>) \o Render(Tail(tls))

RECURSIVE Encode(_)
Encode(chars) ==
    IF chars = <<>> THEN <<>> ELSE Utf8Bytes(Head(chars)) \o Encode(Tail(chars))

\* What the endpoint does with one request:
\*   fetch_rejects        fetch() rejects (endpoint unreachable)
\*   http_401/429/500     non-OK status, JSON error body without a message
\*   http_model           non-OK status, JSON error body naming the model
\*   http_error_unparsable  non-OK status, body that is not JSON
\*   ok_text, ok_empty    OK status, a completion with or without text
\*   ok_unparsable        OK status, body that is not JSON
\*   ok_misshaped         OK status, the JSON object {}
\*   stream_breaks        OK status, the body fails while it is read
HttpErrorFates ==
    { "http_401", "http_429", "http_500", "http_model", "http_404", "http_quota",
      "http_529", "http_504", "http_safety" }

\* the fates in which makeRequest throws before it looks at the body
EarlyFailures == {"fetch_rejects", "http_error_unparsable"} \cup HttpErrorFates

Fates ==
    EarlyFailures \cup {"ok_text", "ok_empty", "ok_unparsable", "ok_misshaped", "stream_breaks"}

\* the provider's name for a normal completion
NormalReason(provider) ==
    CASE provider = "openai" -> "stop"
      [] provider = "anthropic" -> "end_turn"
      [] provider = "google" -> "STOP"

\* The body of an OK response to a streaming request, as lines.
StreamLines(provider, fate) ==
    CASE fate = "ok_text" ->
           ( CASE provider = "openai" ->
                    <<Sse("oai_O"), Sse("oai_K"), Sse("oai_fin"), <<"D", "[DONE]">>>>
               [] provider = "anthropic" ->
                    <<Sse("ant_start"), Sse("ant_O"), Sse("ant_K"), Sse("ant_end")>>
               [] provider = "google" -> <<Obj("goo_O"), Obj("goo_K_usage")>> )
      [] fate = "ok_empty" ->
           ( CASE provider = "openai" -> <<Sse("oai_fin"), <<"D", "[DONE]">>>>
               [] provider = "anthropic" -> <<Sse("ant_start"), Sse("ant_end")>>
               [] provider = "google" -> <<<<"SP">>>> )
      [] fate = "ok_unparsable" -> <<<<"<html>">>>>
      [] fate = "ok_misshaped" -> <<IF provider = "google" THEN Obj("obj") ELSE Sse("obj")>>
      [] fate = "stream_breaks" ->
           ( CASE provider = "openai" -> <<Sse("oai_O")>>
               [] provider = "anthropic" -> <<Sse("ant_start"), Sse("ant_O")>>
               [] provider = "google" -> <<Obj("goo_O")>> )

StreamBytes(provider, fate) == Encode(Render(TermLines(StreamLines(provider, fate), TRUE)))

\* the fates in which makeRequest hands the response to the decoder
StreamedFates == {"ok_text", "ok_empty", "ok_unparsable", "ok_misshaped", "stream_breaks"}

\* handleStreamingResponse on the body of the response
DecodeResponse(provider, fate, throws) ==
    IF fate = "stream_breaks"
      THEN StreamCatch(provider,
                       LoopBody(provider, NewStream, StreamBytes(provider, fate), throws),
                       "network error")
      ELSE DecodeWhole(provider, StreamBytes(provider, fate), throws)

\* the deltas handleStreamingResponse hands to onChunk over the body
DeliveredDeltas(provider, fate) ==
    LET st == LoopBody(provider, NewStream, StreamBytes(provider, fate), FALSE)
    IN IF fate = "stream_breaks" THEN st.deltas
       ELSE Flush(provider, st, FALSE).deltas

\* the deltas of every streamed response, computed once
StreamDeltas ==
    [provider \in Providers |->
        [fate \in StreamedFates |-> DeliveredDeltas(provider, fate)]]

\* the record of every streamed response, computed once
StreamResults ==
    [provider \in Providers |->
        [fate \in StreamedFates |->
            [throws \in BOOLEAN |-> DecodeResponse(provider, fate, throws)]]]

StreamResult(provider, fate, throws) == StreamResults[provider][fate][throws]

\* the message of the error that reaches the catch of makeRequest
ThrownMessage(fate) ==
    CASE fate = "fetch_rejects" -> "Failed to fetch"
      [] fate = "http_401" -> "HTTP 401"
      [] fate = "http_429" -> "HTTP 429"
      [] fate = "http_500" -> "HTTP 500"
      [] fate = "http_model" -> "model: claude-x"
      [] fate = "http_404" -> "The model gpt-x does not exist"
      [] fate = "http_quota" -> "You exceeded your current quota"
      [] fate = "http_529" -> "overloaded_error"
      [] fate = "http_504" -> "The operation timed out (timeout)"
      [] fate = "http_safety" -> "Blocked for SAFETY"
      [] fate \in {"http_error_unparsable", "ok_unparsable"} -> "Unexpected token < in JSON"
      [] OTHER -> "Cannot read properties of undefined"

\* a non-streamed completion: text, usage, terminal reason
Completion(provider, fate) ==
    [ text |-> IF fate = "ok_text" THEN <<"O", "K">> ELSE <<>>,
      inputTokens |-> 3,
      outputTokens |-> IF fate = "ok_text" THEN 2 ELSE 0,
      totalTokens |-> IF fate = "ok_text" THEN 5 ELSE 3,
      reason |-> NormalReason(provider) ]

\* providers.js:107-119
OpenAIWarning(finishReason) ==
    CASE finishReason = "content_filter" ->
           Warning("Response blocked by content filter", "rephrase")
      [] finishReason = "length" ->
           Warning("Response truncated (max tokens reached)", "increase_max_tokens")
      [] OTHER -> Warning("Empty response from model", "no_content")

\* the record of a non-streamed completion, providers.js:102-141:
\* totalTokens is usage.total_tokens as the upstream sent it
OpenAIComplete(c) ==
    IF IsEmptyText(c.text)
      THEN [WarningRecord(c.text, c.inputTokens, c.outputTokens,
                          c.totalTokens, OpenAIWarning(c.reason))
              EXCEPT !.finishReason = c.reason]
      ELSE [TextRecord(c.text, c.inputTokens, c.outputTokens,
                       c.totalTokens, Null)
              EXCEPT !.finishReason = c.reason]

\* providers.js:66-151
OpenAIMakeRequest(fate, onChunk, throws) ==
    IF fate \in EarlyFailures
      THEN ErrorRecord(parseError(ThrownMessage(fate), "openai"), <<>>)
    ELSE IF onChunk THEN StreamResult("openai", fate, throws)
    ELSE IF fate \in {"ok_unparsable", "ok_misshaped", "stream_breaks"}
      THEN ErrorRecord(parseError(ThrownMessage(fate), "openai"), <<>>)
    ELSE OpenAIComplete(Completion("openai", fate))

\* the catch of AnthropicProvider.makeRequest, providers.js:414-456
AnthropicCatch(message) ==
    IF Includes(message, "model:") \/ Includes(message, "not found")
         \/ Includes(message, "not available")
      THEN [message |-> "Model Unavailable", type |-> "model_not_available"]
      ELSE [message |-> message, type |-> "api_error"]

\* providers.js:319-386
AnthropicWarning(stopReason) ==
    CASE stopReason = "end_turn" ->
           Warning("Claude Completed Turn with Empty Response", "rephrase_or_retry")
      [] stopReason = "max_tokens" ->
           Warning("Response Truncated (Max Tokens Reached)", "increase_max_tokens")
      [] stopReason = "stop_sequence" ->
           Warning("Response Stopped at Stop Sequence", "technical_details")
      [] stopReason = Null ->
           Warning("Streaming Connection Interrupted", "interrupted_retry")
      [] OTHER -> Warning("Unexpected Empty Response", "retry_later")

\* the record of a non-streamed completion, providers.js:311-413
AnthropicComplete(c) ==
    IF IsEmptyText(c.text)
      THEN [WarningRecord(c.text, c.inputTokens, c.outputTokens,
                          c.inputTokens + c.outputTokens, AnthropicWarning(c.reason))
              EXCEPT !.stopReason = c.reason]
      ELSE TextRecord(c.text, c.inputTokens, c.outputTokens,
                      c.inputTokens + c.outputTokens, Null)

\* providers.js:262-457
AnthropicMakeRequest(fate, onChunk, throws) ==
    IF fate \in EarlyFailures
      THEN ErrorRecord(AnthropicCatch(ThrownMessage(fate)), <<>>)
    ELSE IF onChunk THEN StreamResult("anthropic", fate, throws)
    ELSE IF fate \in {"ok_unparsable", "ok_misshaped", "stream_breaks"}
      THEN ErrorRecord(AnthropicCatch(ThrownMessage(fate)), <<>>)
    ELSE AnthropicComplete(Completion("anthropic", fate))

\* providers.js:740-750
GoogleWarning(finishReason) ==
    CASE finishReason = "SAFETY" ->
           Warning("Response blocked by safety filters", "rephrase")
      [] finishReason = "MAX_TOKENS" ->
           Warning("Response truncated (max tokens reached)", "increase_max_tokens")
      [] OTHER -> Warning("Empty response from model", "no_content")

\* the record of a non-streamed completion with candidates,
\* providers.js:734-774
GoogleComplete(c) ==
    LET inputTokens  == IF c.inputTokens = 0 THEN estimateTokenCount(PromptText)
                        ELSE c.inputTokens
        outputTokens == IF c.outputTokens = 0 THEN estimateTokenCount(c.text)
                        ELSE c.outputTokens
    IN IF IsEmptyText(c.text)
         THEN [WarningRecord(c.text, inputTokens, outputTokens,
                             inputTokens + outputTokens, GoogleWarning(c.reason))
                 EXCEPT !.finishReason = c.reason]
         ELSE [TextRecord(c.text, inputTokens, outputTokens,
                          inputTokens + outputTokens, Null)
                 EXCEPT !.finishReason = c.reason]

\* providers.js:677-784
GoogleMakeRequest(fate, onChunk, throws) ==
    IF fate \in EarlyFailures
      THEN ErrorRecord(parseError(ThrownMessage(fate), "google"), <<>>)
    ELSE IF onChunk THEN StreamResult("google", fate, throws)
    ELSE IF fate \in {"ok_unparsable", "stream_breaks"}
      THEN ErrorRecord(parseError(ThrownMessage(fate), "google"), <<>>)
    ELSE IF fate = "ok_misshaped"
      THEN WarningRecord(<<>>, 0, 0, 0, Warning("No response generated", "rephrase"))
    ELSE GoogleComplete(Completion("google", fate))

MakeRequest(provider, fate, onChunk, throws) ==
    CASE provider = "openai"    -> OpenAIMakeRequest(fate, onChunk, throws)
      [] provider = "anthropic" -> AnthropicMakeRequest(fate, onChunk, throws)
      [] provider = "google"    -> GoogleMakeRequest(fate, onChunk, throws)

\* a model id that no key of PRICING_FALLBACKS equals or begins
UnpricedModel == 1000

\* getModelPricing(modelId): the entry of the model, as a sequence (empty
\* for null); prices per 1K tokens, in whole units
getModelPricing(modelId) ==
    IF modelId = UnpricedModel THEN <<>> ELSE <<[input |-> 3, output |-> 15]>>

\* a cost that is zero where there is no pricing
calculateCostOrZero(pricing, inputTokens, outputTokens) ==
    IF pricing = <<>> THEN 0
    ELSE inputTokens * pricing[1].input + outputTokens * pricing[1].output

\* Metrics.calculateCost, a thousand times the value the code computes
calculateCost(pricing, inputTokens, outputTokens) ==
    IF pricing = <<>> THEN NoCost
    ELSE inputTokens * pricing[1].input + outputTokens * pricing[1].output

\* the record GoogleProvider.makeRequest returns for a response without
\* candidates, providers.js:720-732
IsNoCandidates(provider, fate, onChunk) ==
    provider = "google" /\ fate = "ok_misshaped" /\ ~onChunk

\* The estimatedCost of the record of a request: every return of a text
\* record computes it from the pricing of the model and the counters it
\* returns; the record for no candidates has the literal 0; an error
\* record has none.
Priced(modelId, provider, fate, onChunk, r) ==
    IF r.error # Null THEN r
    ELSE IF IsNoCandidates(provider, fate, onChunk) THEN [r EXCEPT !.estimatedCost = 0]
    ELSE [r EXCEPT !.estimatedCost =
              calculateCost(getModelPricing(modelId), r.inputTokens, r.outputTokens)]

\* provider.makeRequest(modelConfig.id, prompt, options, onChunk)
PricedRequest(modelId, provider, fate, onChunk, throws) ==
    Priced(modelId, provider, fate, onChunk, MakeRequest(provider, fate, onChunk, throws))

\* how a promise settles
Fulfilled(record) == [settle |-> "fulfilled", record |-> record]
Rejected(message) == [settle |-> "rejected", record |-> message]

\* the fields executeRequest puts around the result of the adapter
Wrapped(modelConfig, hasModelId, hasMeta, result) ==
    [ model |-> modelConfig.name,
      modelId |-> IF hasModelId THEN modelConfig.id ELSE 0,
      provider |-> modelConfig.provider,
      hasContextWindow |-> hasMeta, hasTimestamp |-> hasMeta,
      \* every return of makeRequest and both literal records of
      \* executeRequest have a latency
      hasLatency |-> TRUE,
      result |-> result ]

\* providers.js:908-917
NoKeyRecord(modelConfig) ==
    Wrapped(modelConfig, FALSE, FALSE,
            ErrorRecord([message |-> "API key not configured", type |-> "auth"], <<>>))

\* an executeRequest without the missing-key return
IssuesFetchAlways(modelConfig, apiKey) == modelConfig.provider \in Providers

\* whether executeRequest gets as far as fetch()
IssuesFetch(modelConfig, apiKey) == apiKey /\ modelConfig.provider \in Providers

\* executeRequest with createProvider called before the try block: the
\* exception of an unknown provider leaves the async function
ExecuteRequestUncaught(modelConfig, apiKey, onChunk, throws, fate) ==
    IF ~apiKey THEN Fulfilled(NoKeyRecord(modelConfig))
    ELSE IF modelConfig.provider \notin Providers THEN Rejected("Unknown provider")
    ELSE Fulfilled(Wrapped(modelConfig, TRUE, TRUE,
                           PricedRequest(modelConfig.id, modelConfig.provider, fate,
                                         onChunk, throws)))

\* ProviderFactory.executeRequest, providers.js:905-943: how the promise it
\* returns settles
ExecuteRequest(modelConfig, apiKey, onChunk, throws, fate) ==
    IF ~apiKey THEN Fulfilled(NoKeyRecord(modelConfig))
    ELSE IF modelConfig.provider \notin Providers
      THEN Fulfilled(Wrapped(modelConfig, TRUE, FALSE,
                             ErrorRecord(parseError("Unknown provider", modelConfig.provider),
                                         <<>>)))
    ELSE Fulfilled(Wrapped(modelConfig, TRUE, TRUE,
                           PricedRequest(modelConfig.id, modelConfig.provider, fate,
                                         onChunk, throws)))

\* ======================================================================
\* The stream decoders, one handleStreamingResponse call
\* ======================================================================
VARIABLES
    dProvider,    \* the provider whose decoder runs
    dLines,       \* the lines of the response body, as characters
    dTerminated,  \* whether the last line ends with '\n'
    dBody,        \* the bytes of the response body
    dPos,         \* bytes of the body handed out by reader.read() so far
    dSplit,       \* where chunk boundaries fell: "none", "line" (inside a
                  \* line) or "char" (inside a two-byte character)
    dSt,          \* the call's local variables
    dPhase,       \* "reading", "done" (record returned) or "failed" (catch)
    dResult       \* the record returned

decVars == <<dProvider, dLines, dTerminated, dBody, dPos, dSplit, dSt, dPhase, dResult>>

VARIABLES
    xConfig,      \* executeRequest's modelConfig
    xKey,         \* whether its apiKey is truthy
    xCallback,    \* its onChunk: "none" (null), "appends" or "throws"
    xState,       \* "idle", "fetching" or "settled"
    xFetched,     \* whether fetch() was called
    xFate,        \* what the endpoint did with the request
    xOutcome      \* how the returned promise settled

execVars == <<xConfig, xKey, xCallback, xState, xFetched, xFate, xOutcome>>

VARIABLES
    apiKeys,          \* Storage.getAllApiKeys(): which providers have a key
    streamingEnabled, \* Storage.getStreamingEnabled()
    currentPrompt,    \* App.currentPrompt
    inputDisabled,    \* PromptInput: textarea and buttons disabled
    cards,            \* per target, the state of its ModelCard
    req,              \* per target, where its request stands
    fetched,          \* targets for which this dispatch called fetch()
    results,          \* handleSubmit's local results array
    currentResults,   \* App.currentResults
    lastAlert,        \* the last alert() shown
    pc,               \* "idle", or "awaiting" inside await Promise.all
    submits,          \* handleSubmit calls so far
    retrying,         \* per target, the retryModel calls that await their request
    retried,          \* per target, the retryModel calls that have returned
    streams           \* per target, the body its decoder reads and its locals

VARIABLES
    clProvider,   \* the provider whose response is classified
    clStreamed,   \* whether the response was streamed
    clCompletion, \* what the upstream sent: text, usage, terminal reason
    clState,      \* "received" or "classified"
    clResult      \* the record makeRequest returns for it

classVars == <<clProvider, clStreamed, clCompletion, clState, clResult>>

VARIABLES
    cache,          \* PricingService.cache: the priced entries, each with the time it was cached
    lastFetch,      \* PricingService.lastFetch: NoTime (null) or the time of the last successful fetch
    allModels,      \* PricingService.allModels: <<>> (null) or <<the catalog>>
    fetchPromise,   \* PricingService.fetchPromise: 0 (null) or the request it stands for
    now,            \* Date.now()
    requests,       \* network requests started so far
    inFlight,        \* the network requests in flight
    outcomes,       \* per request, how its promise resolved
    calls,          \* per call of the service, where it stands and what it returned
    lastSuccess,    \* the time of the last successful fetch, kept across refresh()
    refreshedSince  \* whether refresh() was called after the last successful fetch

priceVars ==
    <<cache, lastFetch, allModels, fetchPromise, now, requests, inFlight, outcomes, calls,
      lastSuccess, refreshedSince>>

VARIABLES
    exData,     \* the data handed to Exporter.exportToJSON: prompt and responses
    exSummary,  \* the summary of the export, once it is built
    exState     \* "ready" or "exported"

exportVars == <<exData, exSummary, exState>>

VARIABLES
    costPricing,  \* the pricing handed to Metrics.calculateCost: <<>> (null) or <<entry>>
    costIn,       \* its inputTokens
    costOut,      \* its outputTokens
    costResult,   \* what it returned
    costState     \* "ready" or "done"

costVars == <<costPricing, costIn, costOut, costResult, costState>>

VARIABLES
    pxProvider,   \* the provider whose proxy route is called
    pxStream,     \* whether the client asked for a stream (it passed onChunk)
    pxUpstream,   \* what the provider's API does with the forwarded request
    pxResponse,   \* what the route sent to the client: <<>> or <<response>>
    pxRecord,     \* what makeRequest returned to its caller: <<>> or <<record>>
    pxPhase       \* "requested", "answered" or "resolved"

proxyVars == <<pxProvider, pxStream, pxUpstream, pxResponse, pxRecord, pxPhase>>

VARIABLES
    svProvider,    \* the provider whose key input lost the focus
    svKey,         \* input.value, as characters
    svFate,        \* what the models endpoint does with the listing request
    svValidation,  \* the validation class of the input: "none", "loading", "valid", "invalid"
    svAvailable,   \* this.availableModels[provider], as ids
    svEnabled,     \* Storage.getEnabledModels(), as ids
    svPhase        \* "called", "listing" or "returned"

settingsVars == <<svProvider, svKey, svFate, svValidation, svAvailable, svEnabled, svPhase>>

\* History of the prompts, kept beside the program's state to state what a
\* record was produced for.
VARIABLES
    retryFor,   \* per card, the prompts its open retryModel calls handed to executeRequest
    madeFor     \* per card, the prompt its record in currentResults.responses was
                \* produced for (<<>>: no record)

histVars == <<retryFor, madeFor>>

appVars ==
    <<apiKeys, streamingEnabled, currentPrompt, inputDisabled, cards, req, fetched,
      results, currentResults, lastAlert, pc, submits, retrying, retried, streams>>

vars == <<decVars, execVars, classVars, appVars, priceVars, exportVars, costVars, proxyVars, settingsVars, histVars>>

\* App.currentResults before the first dispatch (null)
NoResults == [set |-> FALSE, prompt |-> <<>>, responses |-> <<>>]

\* the variables of a part of the program that is not running
DecParked ==
    /\ dProvider = "openai" /\ dLines = <<>> /\ dTerminated = TRUE /\ dBody = <<>>
    /\ dPos = 0 /\ dSplit = "none" /\ dSt = NewStream /\ dPhase = "done"
    /\ dResult = Null

ExecParked ==
    /\ xConfig = Null /\ xKey = FALSE /\ xCallback = "none" /\ xState = "idle"
    /\ xFetched = FALSE /\ xFate = Null /\ xOutcome = Null

ClassParked ==
    /\ clProvider = "openai" /\ clStreamed = FALSE /\ clCompletion = Null
    /\ clState = "classified" /\ clResult = Null

AppParked ==
    /\ apiKeys = [p \in Providers |-> FALSE] /\ streamingEnabled = TRUE
    /\ currentPrompt = <<>> /\ inputDisabled = FALSE /\ cards = <<>> /\ req = <<>>
    /\ fetched = {} /\ results = <<>> /\ currentResults = NoResults /\ lastAlert = "none"
    /\ pc = "idle" /\ submits = 0 /\ retrying = <<>> /\ retried = <<>> /\ streams = <<>>

\* no time: the null of lastFetch
NoTime == -1

PriceParked ==
    /\ cache = {} /\ lastFetch = NoTime /\ allModels = <<>> /\ fetchPromise = 0
    /\ now = 1 /\ requests = 0 /\ inFlight = {} /\ outcomes = <<>> /\ calls = <<>>
    /\ lastSuccess = NoTime /\ refreshedSince = FALSE

ExportParked ==
    /\ exData = Null /\ exSummary = Null /\ exState = "exported"

CostParked ==
    /\ costPricing = <<>> /\ costIn = 0 /\ costOut = 0 /\ costResult = Absent
    /\ costState = "done"

ProxyParked ==
    /\ pxProvider = Null
    /\ pxStream = FALSE
    /\ pxUpstream = Null
    /\ pxResponse = <<>>
    /\ pxRecord = <<>>
    /\ pxPhase = "resolved"

SettingsParked ==
    /\ svProvider = Null
    /\ svKey = <<>>
    /\ svFate = Null
    /\ svValidation = "none"
    /\ svAvailable = <<>>
    /\ svEnabled = <<>>
    /\ svPhase = "returned"

HistParked == retryFor = <<>> /\ madeFor = <<>>

\* The lines an upstream body is made of, well formed and not.
BodyLines(provider) ==
    CASE provider = "openai" ->
           { Sse("oai_O"), Sse("oai_E"), Sse("oai_fin"), <<"D", "[DONE]">>,
             <<"D", "{", "oai_K">>, <<>> }
      [] provider = "anthropic" ->
           { Sse("ant_O"), Sse("ant_E"), Sse("ant_start"), Sse("ant_end"),
             Sse("ant_max"), <<"D", "{", "ant_K">> }
      [] provider = "google" ->
           { Obj("goo_O"), Obj("goo_E"), Obj("goo_OK"), Obj("goo_K_usage"),
             <<"{", "goo_K">>, <<"SP">> }

RECURSIVE SeqsUpTo(_, _)
SeqsUpTo(S, n) ==
    IF n = 0 THEN {<<>>}
    ELSE LET shorter == SeqsUpTo(S, n - 1)
         IN shorter \cup {Append(q, x) : q \in {r \in shorter : Len(r) = n - 1}, x \in S}

\* the callback handed to the decoder returns normally (card.appendStreamChunk)
CallbackThrows == FALSE

DecInit ==
    /\ dProvider \in Providers
    /\ dLines \in SeqsUpTo(BodyLines(dProvider), MaxLines)
    /\ dTerminated \in BOOLEAN
    /\ (dLines = <<>> => dTerminated)
    /\ dBody = Encode(Render(TermLines(dLines, dTerminated)))
    /\ dPos = 0
    /\ dSplit = "none"
    /\ dSt = NewStream
    /\ dPhase = "reading"
    /\ dResult = Null
    /\ ExecParked
    /\ ClassParked
    /\ AppParked
    /\ PriceParked
    /\ ExportParked
    /\ CostParked
    /\ ProxyParked
    /\ SettingsParked
    /\ HistParked

\* where a chunk boundary after the given decoder state falls
SplitKind(st, more) ==
    IF ~more THEN "none"
    ELSE IF st.pending # <<>> THEN "char"
    ELSE IF st.buffer # <<>> THEN "line"
    ELSE "none"

WorseSplit(a, b) ==
    IF "char" \in {a, b} THEN "char" ELSE IF "line" \in {a, b} THEN "line" ELSE "none"

\* reader.read() yields the next n bytes: one turn of the while loop
DecRead(n) ==
    /\ dPhase = "reading"
    /\ dPos + n <= Len(dBody)
    /\ dSt' = LoopBody(dProvider, dSt, SubSeq(dBody, dPos + 1, dPos + n), CallbackThrows)
    /\ dPos' = dPos + n
    /\ dSplit' = WorseSplit(dSplit, SplitKind(dSt', dPos' < Len(dBody)))
    /\ UNCHANGED <<dProvider, dLines, dTerminated, dBody, dPhase, dResult>>
    /\ UNCHANGED <<execVars, classVars, appVars, priceVars, exportVars, costVars, proxyVars, settingsVars, histVars>>

\* reader.read() yields done: flush the buffer, build the record
DecDone ==
    /\ dPhase = "reading"
    /\ dPos = Len(dBody)
    /\ dSt' = Flush(dProvider, dSt, CallbackThrows)
    /\ dResult' = Finish(dProvider, dSt')
    /\ dPhase' = "done"
    /\ UNCHANGED <<dProvider, dLines, dTerminated, dBody, dPos, dSplit>>
    /\ UNCHANGED <<execVars, classVars, appVars, priceVars, exportVars, costVars, proxyVars, settingsVars, histVars>>

ReadErrors == {"network error"}

\* reader.read() rejects: the catch returns the partial text as an error
DecFail(message) ==
    /\ dPhase = "reading"
    /\ dResult' = StreamCatch(dProvider, dSt, message)
    /\ dPhase' = "failed"
    /\ UNCHANGED <<dProvider, dLines, dTerminated, dBody, dPos, dSplit, dSt>>
    /\ UNCHANGED <<execVars, classVars, appVars, priceVars, exportVars, costVars, proxyVars, settingsVars, histVars>>

DecNext ==
    \/ \E n \in 1..Len(dBody) : DecRead(n)
    \/ DecDone
    \/ \E m \in ReadErrors : DecFail(m)

DecSpec == DecInit /\ [][DecNext]_vars

\* ----------------------------------------------------- decoder properties
\* the local variables after a body that arrived as one chunk was read
WholeStream(provider, body) ==
    Flush(provider, LoopBody(provider, NewStream, body, CallbackThrows), CallbackThrows)

\* The content fragments a body line carries, in the provider's wire
\* format: the delta content of a chat.completion.chunk, the text of a
\* content_block_delta, every part of a GenerateContentResponse.
LineFragments(provider, line) ==
    LET payload == IF provider = "google" THEN line
                   ELSE IF StartsWithData(line) THEN Tail(line) ELSE <<>>
    IN IF ~JsonValid(payload) THEN <<>>
       ELSE LET doc == JsonParse(payload) IN
            CASE provider = "openai" ->
                   IF doc.hasChoices THEN doc.choiceContent ELSE <<>>
              [] provider = "anthropic" ->
                   IF doc.type = "content_block_delta" THEN <<doc.text>> ELSE <<>>
              [] provider = "google" ->
                   IF doc.hasParts THEN doc.parts ELSE <<>>

NonEmpty(fragments) == SelectSeq(fragments, LAMBDA f : f # <<>>)

RECURSIVE BodyFragments(_, _)
BodyFragments(provider, lines) ==
    IF lines = <<>> THEN <<>>
    ELSE NonEmpty(LineFragments(provider, Head(lines)))
           \o BodyFragments(provider, Tail(lines))

\* C6: a body delivered in any sequence of chunks is decoded to the same
\* record (text, token counts, terminal reason) and the same sequence of
\* delta callbacks as the same body delivered as one chunk.
ChunkingInvariance ==
    dPhase = "done" =>
        /\ dResult = DecodeWhole(dProvider, dBody, CallbackThrows)
        /\ dSt.deltas = WholeStream(dProvider, dBody).deltas

\* C6 witness: a body was decoded whose chunks split a two-byte character,
\* and deltas were delivered
ChunkingInvarianceWitness ==
    /\ dPhase = "done"
    /\ dSplit = "char"
    /\ Len(dSt.deltas) >= 2

\* C7 as claimed: decoding a body whose last line has no newline gives the
\* same record as decoding the body followed by a newline.
UnterminatedLineAsTerminated ==
    (dPhase = "done" /\ dLines # <<>> /\ ~dTerminated) =>
        dResult = DecodeWhole(dProvider, dBody \o <<"NL">>, CallbackThrows)

\* C8: a line whose payload is not valid JSON is skipped; the record and
\* the deltas are those of the body without its malformed lines, and the
\* record carries no error.
MalformedLineSkipped ==
    dPhase = "done" =>
        LET kept == SelectSeq(TermLines(dLines, dTerminated),
                              LAMBDA l : ~IsMalformed(dProvider, l.chars))
            clean == Encode(Render(kept))
        IN /\ dResult = DecodeWhole(dProvider, clean, CallbackThrows)
           /\ dSt.deltas = WholeStream(dProvider, clean).deltas
           /\ dResult.error = Null

\* C8 witness: a body with a malformed line followed by a well-formed line
\* that delivered content
MalformedLineSkippedWitness ==
    /\ dPhase = "done"
    /\ Len(dLines) >= 2
    /\ IsMalformed(dProvider, dLines[1])
    /\ BodyFragments(dProvider, Tail(dLines)) # <<>>
    /\ dSt.deltas # <<>>

\* C9 as claimed: the assembled text is at every point the concatenation of
\* the deltas delivered so far, and a decoded body has delivered one delta
\* per non-empty content fragment of the body, in order.
DeltaPerFragmentInOrder ==
    /\ dSt.fullText = Flatten(dSt.deltas)
    /\ dPhase = "done" => dSt.deltas = BodyFragments(dProvider, dLines)

\* C10 as claimed: a stream of non-empty content fragments that ends
\* normally yields a record without error and warning whose text is the
\* concatenation of the fragments, one delta per fragment in order.
FragmentsThenEndIsSuccess ==
    (/\ dPhase = "done"
     /\ BodyFragments(dProvider, dLines) # <<>>
     /\ \A i \in 1..Len(dLines) : ~IsMalformed(dProvider, dLines[i])) =>
        /\ dResult.error = Null
        /\ dResult.warning = Null
        /\ dResult.text = Flatten(BodyFragments(dProvider, dLines))
        /\ dSt.deltas = BodyFragments(dProvider, dLines)

\* C9, C10 for the two SSE decoders and for Google bodies whose objects
\* hold one part each: there the claims hold.
SinglePartBody ==
    \A i \in 1..Len(dLines) : Len(LineFragments(dProvider, dLines[i])) <= 1

DeltaPerFragmentSinglePart ==
    SinglePartBody => DeltaPerFragmentInOrder

FragmentsThenEndSinglePart ==
    SinglePartBody => FragmentsThenEndIsSuccess


\* the catch keeps the text of the deltas delivered before the failure
PartialTextKept ==
    dPhase = "failed" =>
        /\ dResult.error # Null
        /\ dResult.text = dSt.fullText
        /\ dResult.text = Flatten(dSt.deltas)

\* C11, as stated: when reading the body fails after k deltas, the record
\* is an error that carries the text of those k deltas and the usage
\* counters the stream had reported up to the failure.
PartialTextAndUsageKept ==
    dPhase = "failed" =>
        /\ dResult.error # Null
        /\ dResult.text = Flatten(dSt.deltas)
        /\ (dSt.inputTokens > 0 => dResult.inputTokens = dSt.inputTokens)
        /\ (dSt.outputTokens > 0 => dResult.outputTokens = dSt.outputTokens)

\* the stream decoders that keep usage counters fall back on the estimates
\* of the prompt and of the assembled text when the stream reported none
EstimatesWhereCountersAreKept ==
    dPhase = "done" /\ dProvider # "openai" =>
        /\ (dSt.inputTokens = 0 =>
              dResult.inputTokens = estimateTokenCount(PromptText))
        /\ (dSt.outputTokens = 0 =>
              dResult.outputTokens = estimateTokenCount(dResult.text))

\* C21, as stated: for every provider, the record of a stream that
\* reported no usage counters has the estimate of the prompt text as its
\* inputTokens and the estimate of the assembled text as its outputTokens.
EstimatesWhenNoUsage ==
    dPhase = "done" /\ dSt.inputTokens = 0 /\ dSt.outputTokens = 0 =>
        /\ dResult.inputTokens = estimateTokenCount(PromptText)
        /\ dResult.outputTokens = estimateTokenCount(dResult.text)

\* the usage counters of the last body line that reports any: <<>> when no
\* line does
RECURSIVE LastUsage(_)
LastUsage(lines) ==
    IF lines = <<>> THEN <<>>
    ELSE LET line == lines[Len(lines)]
             doc == JsonParse(line)
         IN IF JsonValid(line) /\ doc.hasUsageMetadata
              THEN <<[input |-> doc.promptTokenCount, output |-> doc.candidatesTokenCount]>>
              ELSE LastUsage(SubSeq(lines, 1, Len(lines) - 1))

\* The Google decoder delivers the first part of every object, in order, and
\* the counters of its record are those of the last object that reported
\* usage, not their sum.
GoogleFirstPartsAndLastUsage ==
    dProvider = "google" /\ dPhase = "done" =>
        /\ dResult.text = Flatten(dSt.deltas)
        /\ (SinglePartBody => dSt.deltas = BodyFragments("google", dLines))
        /\ (LastUsage(dLines) # <<>> =>
              /\ dResult.inputTokens = LastUsage(dLines)[1].input
              /\ dResult.outputTokens = LastUsage(dLines)[1].output)

\* C33, as stated: the Google decoder delivers every text fragment of every
\* streamed object, all of its parts, to the delta callback in order and
\* appends it to the text, and the usage counters of the record are the last
\* reported values.
GoogleAllPartsAndLastUsage ==
    dProvider = "google" /\ dPhase = "done" =>
        /\ dSt.deltas = BodyFragments("google", dLines)
        /\ dResult.text = Flatten(BodyFragments("google", dLines))
        /\ (LastUsage(dLines) # <<>> =>
              /\ dResult.inputTokens = LastUsage(dLines)[1].input
              /\ dResult.outputTokens = LastUsage(dLines)[1].output)

\* ======================================================================
\* ProviderFactory.executeRequest, called once
\* ======================================================================
\* a provider name createProvider does not know
UnknownProvider == "mistral"

ModelConfigOf(id, provider) == [id |-> id, name |-> id, provider |-> provider]

ExecInit ==
    /\ xConfig \in {ModelConfigOf(id, p) : id \in {1, UnpricedModel},
                                            p \in Providers \cup {UnknownProvider}}
    /\ xKey \in BOOLEAN
    /\ xCallback \in {"none", "appends", "throws"}
    /\ xState = "idle"
    /\ xFetched = FALSE
    /\ xFate = Null
    /\ xOutcome = Null
    /\ DecParked
    /\ ClassParked
    /\ AppParked
    /\ PriceParked
    /\ ExportParked
    /\ CostParked
    /\ ProxyParked
    /\ SettingsParked
    /\ HistParked

\* executeRequest up to its first suspension: the missing-key return, the
\* exception of createProvider, or the fetch() of makeRequest
ExecCall ==
    /\ xState = "idle"
    /\ IF IssuesFetch(xConfig, xKey)
         THEN /\ xState' = "fetching"
              /\ xFetched' = TRUE
              /\ UNCHANGED xOutcome
         ELSE /\ xState' = "settled"
              /\ xOutcome' = ExecuteRequest(xConfig, xKey, xCallback # "none",
                                            xCallback = "throws", "fetch_rejects")
              /\ UNCHANGED xFetched
    /\ UNCHANGED <<xConfig, xKey, xCallback, xFate>>
    /\ UNCHANGED <<decVars, classVars, appVars, priceVars, exportVars, costVars, proxyVars, settingsVars, histVars>>

\* the endpoint answers (or fails to): the rest of makeRequest and of
\* executeRequest
ExecAnswer(fate) ==
    /\ xState = "fetching"
    /\ (fate = "stream_breaks" => xCallback # "none")
    /\ xOutcome' = ExecuteRequest(xConfig, xKey, xCallback # "none",
                                  xCallback = "throws", fate)
    /\ xState' = "settled"
    /\ xFate' = fate
    /\ UNCHANGED <<xConfig, xKey, xCallback, xFetched>>
    /\ UNCHANGED <<decVars, classVars, appVars, priceVars, exportVars, costVars, proxyVars, settingsVars, histVars>>

ExecNext ==
    \/ ExecCall
    \/ \E fate \in Fates : ExecAnswer(fate)

ExecSpec == ExecInit /\ [][ExecNext]_vars


\* ------------------------------------------------ executeRequest properties
\* the failures after which the code returns a record with an error
HardFailure ==
    \/ xKey /\ xConfig.provider \notin Providers
    \/ xFate \in EarlyFailures
    \/ xFate = "stream_breaks"
    \/ xCallback = "none" /\ xFate = "ok_unparsable"
    \/ xCallback = "none" /\ xFate = "ok_misshaped" /\ xConfig.provider # "google"

\* every failure while serving a target
AnyFailure ==
    \/ xKey /\ xConfig.provider \notin Providers
    \/ xFate \in EarlyFailures \cup {"ok_unparsable", "ok_misshaped", "stream_breaks"}
    \/ xCallback = "throws" /\ xFate \in {"ok_text", "stream_breaks"}

UnpricedText ==
    /\ xState = "settled"
    /\ xOutcome.settle = "fulfilled"
    /\ xOutcome.record.result.error = Null
    /\ getModelPricing(xConfig.id) = <<>>

\* every return that calls Metrics.calculateCost gives null for a model
\* without a pricing entry
UnpricedCostIsNullWhereCalculated ==
    UnpricedText /\ ~IsNoCandidates(xConfig.provider, xFate, xCallback # "none") =>
        xOutcome.record.result.estimatedCost = NoCost

\* C23, as stated: every success or warning record for a model without a
\* pricing entry has estimatedCost null, never 0, whatever the provider and
\* the path that made the record.
UnpricedCostIsNull ==
    UnpricedText => xOutcome.record.result.estimatedCost = NoCost

\* ======================================================================
\* The classification of a completed response
\* ======================================================================
\* a text of at least ten characters
LongText == <<"H", "e", "l", "l", "o", "SP", "t", "h", "e", "r", "e", "!">>

\* the texts a completed response may hold: none, blanks, short ones, a
\* long one
ClassTexts == {<<>>, <<"SP", "SP">>, <<"4">>, <<"SP", "4", "SP">>, LongText}

\* output-token counts an upstream may report (0: not reported)
ClassTokens == {0, 1, 6}

\* the total an upstream may report next to an input count of 3: none
\* (Absent), the sum for an output count of 1, the sum for one of 6
ClassTotals == {Absent, 4, 9}

\* the terminal reasons of a provider; Null: none was received
ReasonsOf(provider) ==
    CASE provider = "openai"    -> {Null, "stop", "length", "content_filter"}
      [] provider = "anthropic" -> {Null, "end_turn", "max_tokens", "stop_sequence", "tool_use"}
      [] provider = "google"    -> {Null, "STOP", "MAX_TOKENS", "SAFETY"}

\* the reason that says the token limit cut the response
LengthReason(provider) ==
    CASE provider = "openai"    -> "length"
      [] provider = "anthropic" -> "max_tokens"
      [] provider = "google"    -> "MAX_TOKENS"

\* The locals of handleStreamingResponse when the body of a completed
\* response has been read: the OpenAI loop keeps the text only, the Google
\* loop the text and the usage, the Anthropic loop also the stop reason.
StreamLocals(provider, c) ==
    LET st == [NewStream EXCEPT !.fullText = c.text,
                                !.deltas = IF c.text = <<>> THEN <<>> ELSE <<c.text>>]
    IN CASE provider = "openai" -> st
         [] provider = "anthropic" ->
              [st EXCEPT !.inputTokens = c.inputTokens, !.outputTokens = c.outputTokens,
                         !.stopReason = c.reason]
         [] provider = "google" ->
              [st EXCEPT !.inputTokens = c.inputTokens, !.outputTokens = c.outputTokens]

\* the record makeRequest returns for a completed response
Complete(provider, streamed, c) ==
    IF streamed THEN Finish(provider, StreamLocals(provider, c))
    ELSE CASE provider = "openai"    -> OpenAIComplete(c)
           [] provider = "anthropic" -> AnthropicComplete(c)
           [] provider = "google"    -> GoogleComplete(c)

ClassInit ==
    /\ clProvider \in Providers
    /\ clStreamed \in BOOLEAN
    /\ clCompletion \in [text : ClassTexts, inputTokens : {3}, outputTokens : ClassTokens,
                         totalTokens : ClassTotals, reason : ReasonsOf(clProvider)]
    /\ clState = "received"
    /\ clResult = Null
    /\ DecParked
    /\ ExecParked
    /\ AppParked
    /\ PriceParked
    /\ ExportParked
    /\ CostParked
    /\ ProxyParked
    /\ SettingsParked
    /\ HistParked

\* makeRequest builds the record of the response
Classify ==
    /\ clState = "received"
    /\ clResult' = Complete(clProvider, clStreamed, clCompletion)
    /\ clState' = "classified"
    /\ UNCHANGED <<clProvider, clStreamed, clCompletion>>
    /\ UNCHANGED <<decVars, execVars, appVars, priceVars, exportVars, costVars, proxyVars, settingsVars, histVars>>

ClassNext == Classify

ClassSpec == ClassInit /\ [][ClassNext]_vars

\* ------------------------------------------------ classification properties
\* the text has a character that is not whitespace
HasContent(text) == \E i \in 1..Len(text) : text[i] # "SP"

WithNormalEnd ==
    Complete(clProvider, clStreamed,
             [clCompletion EXCEPT !.reason = NormalReason(clProvider)])

\* C13, as stated: for every provider, streamed or not, an empty or
\* whitespace-only response without a terminal reason is a warning that
\* points to an interrupted connection and suggests a retry, and differs
\* from the diagnostic of a normal end.
EmptyWithoutReasonIsInterrupted ==
    clState = "classified" /\ ~HasContent(clCompletion.text)
      /\ clCompletion.reason = Null =>
        /\ clResult.warning # Null
        /\ clResult.warningSuggestion = "interrupted_retry"
        /\ clResult.warning # WithNormalEnd.warning

\* what holds of C13: the non-streamed Anthropic path alone gives the
\* interrupted-connection diagnostic
EmptyWithoutReasonAnthropicOneShot ==
    clState = "classified" /\ ~HasContent(clCompletion.text)
      /\ clCompletion.reason = Null =>
        (clResult.warningSuggestion = "interrupted_retry"
           <=> clProvider = "anthropic" /\ ~clStreamed)

\* C14, as stated: for every provider, streamed or not, an empty response
\* that ended at the token limit is a warning that says to increase the
\* max-tokens parameter.
EmptyAtTokenLimitSaysIncrease ==
    clState = "classified" /\ ~HasContent(clCompletion.text)
      /\ clCompletion.reason = LengthReason(clProvider) =>
        /\ clResult.warning # Null
        /\ clResult.warningSuggestion = "increase_max_tokens"

\* what holds of C14: every path but the OpenAI and Google decoders
EmptyAtTokenLimitWhereClassified ==
    clState = "classified" /\ ~HasContent(clCompletion.text)
      /\ clCompletion.reason = LengthReason(clProvider) =>
        (clResult.warningSuggestion = "increase_max_tokens"
           <=> ~(clStreamed /\ clProvider \in {"openai", "google"}))

\* the expression the unit tests evaluate, tests/unit.test.js:12-13
isEmpty(result) ==
    \/ result.text = <<>>
    \/ Trim(result.text) = <<>>
    \/ Len(Trim(result.text)) < 10 /\ result.outputTokens <= 5

BothCounted(r) == r.inputTokens # Absent /\ r.outputTokens # Absent

\* wherever the adapter computes the total itself it is the sum of the
\* counters of the record
TotalIsSumWhereComputed ==
    clState = "classified" /\ ~(clProvider = "openai" /\ ~clStreamed)
                           /\ BothCounted(clResult) =>
        clResult.totalTokens = clResult.inputTokens + clResult.outputTokens

\* C22, as stated: for every provider, streamed or not, a record that
\* carries inputTokens and outputTokens has their sum as its totalTokens.
TotalIsSum ==
    clState = "classified" /\ BothCounted(clResult) =>
        clResult.totalTokens = clResult.inputTokens + clResult.outputTokens

\* ======================================================================
\* App.handleSubmit: one dispatch over the model cards
\* ======================================================================
NumTargets == 3
MaxSubmits == 1
MaxRetries == 1

\* the model cards, in the order of App.modelCards
Targets == 1..NumTargets

ProviderOf(t) == <<"openai", "anthropic", "google">>[((t - 1) % 3) + 1]

ModelConfig(t) == ModelConfigOf(t, ProviderOf(t))

\* apiKeys[modelConfig.provider]
HasKey(t) == apiKeys[ProviderOf(t)]

\* what an endpoint does with a request of the dispatch: a completion, an
\* empty completion, no connection
DispatchFates == {"ok_text", "ok_empty", "fetch_rejects"}

\* ------------------------------------------------------------- ModelCard
\* A card: its isStreaming flag, its streamedText and the record its
\* response area shows, as a sequence (empty: the skeleton, the typing
\* indicator or the streamed text).
NewCard == [isStreaming |-> FALSE, streamedText |-> <<>>, shown |-> <<>>]

\* model-card.js:72-80
setStreaming(card) == [isStreaming |-> TRUE, streamedText |-> <<>>, shown |-> <<>>]

\* model-card.js:82-91
appendStreamChunk(card, chunk) ==
    IF ~card.isStreaming THEN card
    ELSE [card EXCEPT !.streamedText = @ \o chunk, !.shown = <<>>]

RECURSIVE AppendChunks(_, _)
AppendChunks(card, chunks) ==
    IF chunks = <<>> THEN card
    ELSE AppendChunks(appendStreamChunk(card, Head(chunks)), Tail(chunks))

\* a setResponse that leaves the flag of the card as it is
setResponseStillStreaming(card, result) == [card EXCEPT !.shown = <<result>>]

\* model-card.js:93-175
setResponse(card, result) ==
    [card EXCEPT !.isStreaming = FALSE, !.shown = <<result>>]

\* ErrorHandler.formatErrorForDisplay(...).canRetry
canRetry(type) == type \in {"timeout", "network", "rate_limit", "overloaded"}

\* the response area of the card holds a Retry button
HasRetryButton(card) ==
    /\ card.shown # <<>>
    /\ card.shown[1].result.error # Null
    /\ canRetry(card.shown[1].result.errorType)

\* no retry is open and no record is retained
NoHistory ==
    /\ retryFor = [t \in Targets |-> <<>>]
    /\ madeFor = [t \in Targets |-> <<>>]

Init ==
    /\ apiKeys \in [Providers -> BOOLEAN]
    /\ streamingEnabled \in BOOLEAN
    /\ currentPrompt = <<>>
    /\ inputDisabled = FALSE
    /\ cards = [t \in Targets |-> NewCard]
    /\ req = [t \in Targets |-> "none"]
    /\ fetched = {}
    /\ results = <<>>
    /\ currentResults = NoResults
    /\ lastAlert = "none"
    /\ pc = "idle"
    /\ submits = 0
    /\ retrying = [t \in Targets |-> 0]
    /\ retried = [t \in Targets |-> 0]
    /\ streams = <<>>
    /\ DecParked
    /\ ExecParked
    /\ ClassParked
    /\ PriceParked
    /\ ExportParked
    /\ CostParked
    /\ ProxyParked
    /\ SettingsParked
    /\ NoHistory

\* Promise.race in the place of Promise.all: the batch is over with the
\* first target that resolves
PromiseAnyFulfilled(r) == \E t \in Targets : r[t] = "resolved"

\* Promise.all(promises) fulfils when every promise has
PromiseAllFulfilled(r) == \A t \in Targets : r[t] = "resolved"

\* a forEach that skips the cards without a key
NoKeyResultsSkipped == <<>>

\* The records pushed before handleSubmit is resumed by any response: the
\* executeRequest of a card without a key returns without suspending, and
\* its .then callback runs in card order when handleSubmit first awaits.
NoKeyResults ==
    LET order == SelectSeq([t \in Targets |-> t],
                           LAMBDA t : ~IssuesFetch(ModelConfig(t), HasKey(t)))
    IN [i \in 1..Len(order) |->
          ExecuteRequest(ModelConfig(order[i]), HasKey(order[i]), streamingEnabled,
                         CallbackThrows, "fetch_rejects").record]

\* a submit button that takes clicks whatever its disabled attribute
AcceptsSubmitAlways(disabled) == TRUE

\* the submit button takes no click while setDisabled(true) holds
\* (part_004:47-51)
AcceptsSubmit(disabled) == ~disabled

\* handleSubmit up to its await, and the callbacks that are already due;
\* budget bounds the calls of one behaviour
handleSubmitWithin(prompt, budget) ==
    /\ AcceptsSubmit(inputDisabled)
    /\ submits < budget
    /\ submits' = submits + 1
    /\ currentPrompt' = prompt
    /\ IF \A p \in Providers : ~apiKeys[p]
         THEN /\ lastAlert' = "configure_key"
              /\ inputDisabled' = FALSE
              /\ UNCHANGED <<cards, req, fetched, results, currentResults, pc, madeFor>>
         ELSE LET started == {t \in Targets : IssuesFetch(ModelConfig(t), HasKey(t))}
                  req1 == [t \in Targets |-> IF t \in started THEN "inflight"
                                             ELSE "resolved"]
              IN /\ fetched' = started
                 /\ req' = req1
                 /\ cards' = [t \in Targets |->
                                IF t \in started THEN setStreaming(cards[t])
                                ELSE setResponse(setStreaming(cards[t]),
                                                 NoKeyRecord(ModelConfig(t)))]
                 /\ results' = NoKeyResults
                 /\ IF PromiseAllFulfilled(req1)
                      THEN /\ currentResults' = [set |-> TRUE, prompt |-> prompt,
                                                 responses |-> NoKeyResults]
                           /\ madeFor' = [t \in Targets |-> prompt]
                           /\ inputDisabled' = FALSE
                           /\ pc' = "idle"
                      ELSE /\ inputDisabled' = TRUE
                           /\ pc' = "awaiting"
                           /\ UNCHANGED <<currentResults, madeFor>>
                 /\ UNCHANGED lastAlert
    /\ UNCHANGED <<apiKeys, streamingEnabled, retrying, retried, retryFor>>
    /\ UNCHANGED <<decVars, execVars, classVars, priceVars, exportVars, costVars, proxyVars, settingsVars>>

handleSubmit(prompt) == handleSubmitWithin(prompt, MaxSubmits)

\* the click on the submit button
Submit(prompt) == handleSubmit(prompt) /\ UNCHANGED streams

\* the deltas a target's decoder has handed to onChunk when the body ends
FirstDelta(t) == <<StreamDeltas[ProviderOf(t)]["ok_text"][1]>>

\* the first delta of a streamed completion arrives and is rendered
OpenBody(t) ==
    /\ req[t] = "inflight"
    /\ streamingEnabled
    /\ req' = [req EXCEPT ![t] = "reading"]
    /\ cards' = [cards EXCEPT ![t] = AppendChunks(@, FirstDelta(t))]
    /\ UNCHANGED <<apiKeys, streamingEnabled, currentPrompt, inputDisabled,
                   fetched, results, currentResults, lastAlert, pc, submits,
                   retrying, retried, streams>>
    /\ UNCHANGED <<decVars, execVars, classVars, priceVars, exportVars, costVars, proxyVars, settingsVars, histVars>>

\* the endpoint stops talking: no answer, or a body that is never closed
GoSilent(t) ==
    /\ req[t] \in {"inflight", "reading"}
    /\ req' = [req EXCEPT ![t] = "hung"]
    /\ UNCHANGED <<apiKeys, streamingEnabled, currentPrompt, inputDisabled, cards,
                   fetched, results, currentResults, lastAlert, pc, submits,
                   retrying, retried, streams>>
    /\ UNCHANGED <<decVars, execVars, classVars, priceVars, exportVars, costVars, proxyVars, settingsVars, histVars>>

\* executeRequest of a target of the dispatch has settled with out, after
\* the deltas in chunks: the .then callback shows and pushes the record and,
\* when that settles Promise.all, handleSubmit runs to its end.
Settle(t, out, chunks) ==
    LET req1 == [req EXCEPT ![t] = IF out.settle = "fulfilled" THEN "resolved"
                                   ELSE "rejected"]
        res1 == IF out.settle = "fulfilled" THEN Append(results, out.record)
                ELSE results
        card1 == AppendChunks(cards[t], chunks)
    IN /\ req' = req1
       /\ results' = res1
       /\ cards' = [cards EXCEPT ![t] = IF out.settle = "fulfilled"
                                          THEN setResponse(card1, out.record)
                                          ELSE card1]
       /\ IF pc = "awaiting" /\ out.settle = "rejected"
            THEN /\ lastAlert' = "request_failed"
                 /\ inputDisabled' = FALSE
                 /\ pc' = "idle"
                 /\ UNCHANGED <<currentResults, madeFor>>
          ELSE IF pc = "awaiting" /\ PromiseAllFulfilled(req1)
            THEN /\ currentResults' = [set |-> TRUE, prompt |-> currentPrompt,
                                       responses |-> res1]
                 /\ madeFor' = [u \in Targets |-> currentPrompt]
                 /\ inputDisabled' = FALSE
                 /\ pc' = "idle"
                 /\ UNCHANGED lastAlert
          ELSE UNCHANGED <<currentResults, inputDisabled, pc, lastAlert, madeFor>>
       /\ UNCHANGED retryFor

\* the deltas of a whole response that reach onChunk
ChunksOf(t, onChunk, fate) ==
    IF onChunk /\ fate \in StreamedFates THEN StreamDeltas[ProviderOf(t)][fate]
    ELSE <<>>

\* The request of a target of the dispatch comes to its end: the deltas
\* not yet delivered, then the record.
Respond(t, fate) ==
    /\ req[t] \in {"inflight", "reading"}
    /\ (req[t] = "reading" => fate = "ok_text")
    /\ LET all == ChunksOf(t, streamingEnabled, fate)
       IN Settle(t,
                 ExecuteRequest(ModelConfig(t), HasKey(t), streamingEnabled,
                                CallbackThrows, fate),
                 IF req[t] = "reading" THEN Tail(all) ELSE all)
    /\ UNCHANGED <<apiKeys, streamingEnabled, currentPrompt, fetched, submits,
                   retrying, retried, streams>>
    /\ UNCHANGED <<decVars, execVars, classVars, priceVars, exportVars, costVars, proxyVars, settingsVars>>

\* ------------------------------------------------------------ retryModel
\* the onChunk retryModel hands to executeRequest: always a callback
RetryOnChunk == TRUE

\* an index that does not look at the model id: the first record
findIndexFirst(responses, modelId) == IF responses = <<>> THEN 0 ELSE 1

\* responses.findIndex(r => r.modelId === modelId), 0 for -1
findIndex(responses, modelId) ==
    IF \E i \in 1..Len(responses) : responses[i].modelId = modelId
      THEN CHOOSE i \in 1..Len(responses) :
              /\ responses[i].modelId = modelId
              /\ \A j \in 1..(i - 1) : responses[j].modelId # modelId
      ELSE 0

RECURSIVE Sum(_, _)
Sum(f, n) == IF n = 0 THEN 0 ELSE f[n] + Sum(f, n - 1)

\* the retryModel calls made so far
Retries == Sum(retrying, NumTargets) + Sum(retried, NumTargets)

\* the click on the Retry button of a card: retryModel up to its await
RetryClick(t) ==
    /\ HasRetryButton(cards[t])
    /\ Retries < MaxRetries
    /\ currentPrompt # <<>>
    /\ IF ~HasKey(t)
         THEN /\ lastAlert' = "configure_provider_key"
              /\ UNCHANGED <<cards, retrying, fetched, retryFor>>
         ELSE /\ cards' = [cards EXCEPT ![t] = setStreaming(@)]
              /\ retrying' = [retrying EXCEPT ![t] = @ + 1]
              /\ retryFor' = [retryFor EXCEPT ![t] = Append(@, currentPrompt)]
              /\ fetched' = fetched \cup {t}
              /\ UNCHANGED lastAlert
    /\ UNCHANGED <<apiKeys, streamingEnabled, currentPrompt, inputDisabled, req,
                   results, currentResults, pc, submits, retried, streams, madeFor>>
    /\ UNCHANGED <<decVars, execVars, classVars, priceVars, exportVars, costVars, proxyVars, settingsVars>>

\* The request of a retry comes to its end: its deltas, its record on the
\* card and, if there is a retained result set, in the place of the first
\* record with the model id.  After a dispatch has ended its results array
\* and currentResults.responses are one array.
RetryRespond(t, fate) ==
    /\ retrying[t] > 0
    /\ LET out == ExecuteRequest(ModelConfig(t), HasKey(t), RetryOnChunk,
                                 CallbackThrows, fate)
           card1 == AppendChunks(cards[t], ChunksOf(t, RetryOnChunk, fate))
           index == findIndex(currentResults.responses, ModelConfig(t).id)
           responses1 == IF currentResults.set /\ index > 0
                           THEN [currentResults.responses EXCEPT ![index] = out.record]
                           ELSE currentResults.responses
       IN /\ cards' = [cards EXCEPT ![t] = setResponse(card1, out.record)]
          /\ currentResults' = [currentResults EXCEPT !.responses = responses1]
          /\ results' = IF pc = "idle" /\ currentResults.set THEN responses1
                        ELSE results
          /\ \E k \in 1..Len(retryFor[t]) :
                /\ retryFor' = [retryFor EXCEPT ![t] =
                                   SubSeq(@, 1, k - 1) \o SubSeq(@, k + 1, Len(@))]
                /\ madeFor' = IF currentResults.set /\ index > 0
                                THEN [madeFor EXCEPT ![t] = retryFor[t][k]]
                                ELSE madeFor
    /\ retrying' = [retrying EXCEPT ![t] = @ - 1]
    /\ retried' = [retried EXCEPT ![t] = @ + 1]
    /\ UNCHANGED <<apiKeys, streamingEnabled, currentPrompt, inputDisabled, req,
                   fetched, lastAlert, pc, submits, streams>>
    /\ UNCHANGED <<decVars, execVars, classVars, priceVars, exportVars, costVars, proxyVars, settingsVars>>

Next ==
    \/ Submit(PromptText)
    \/ \E t \in Targets : OpenBody(t)
    \/ \E t \in Targets : GoSilent(t)
    \/ \E t \in Targets, fate \in DispatchFates : Respond(t, fate)
    \/ \E t \in Targets : RetryClick(t)
    \/ \E t \in Targets, fate \in DispatchFates : RetryRespond(t, fate)

Spec == Init /\ [][Next]_vars

\* an endpoint that has not stopped talking answers in the end
LiveSpec ==
    Spec /\ \A t \in Targets : WF_vars(\E fate \in DispatchFates : Respond(t, fate))


\* ------------------------------------------- concurrent stream decoders
\* A dispatch with streaming enabled, seen one reader.read() at a time:
\* every target has its own handleStreamingResponse call, and the chunks of
\* the targets arrive in any order.
ChunkLen == 5

\* what an endpoint streams: a completion, an empty completion, a body
\* whose connection breaks after its first event
ConcFates == {"ok_text", "ok_empty", "stream_breaks"}

\* the bytes of every streamed body, computed once
StreamBodies ==
    [provider \in Providers |-> [fate \in ConcFates |-> StreamBytes(provider, fate)]]

BodyOf(t) == StreamBodies[ProviderOf(t)][streams[t].fate]

\* a request that has not been answered yet
NoStream == [fate |-> "ok_empty", pos |-> 0, st |-> NewStream]

ConcInit ==
    /\ apiKeys = [p \in Providers |-> TRUE]
    /\ streamingEnabled = TRUE
    /\ currentPrompt = <<>>
    /\ inputDisabled = FALSE
    /\ cards = [t \in Targets |-> NewCard]
    /\ req = [t \in Targets |-> "none"]
    /\ fetched = {}
    /\ results = <<>>
    /\ currentResults = NoResults
    /\ lastAlert = "none"
    /\ pc = "idle"
    /\ submits = 0
    /\ retrying = [t \in Targets |-> 0]
    /\ retried = [t \in Targets |-> 0]
    /\ streams = [t \in Targets |-> NoStream]
    /\ DecParked
    /\ ExecParked
    /\ ClassParked
    /\ PriceParked
    /\ ExportParked
    /\ CostParked
    /\ ProxyParked
    /\ SettingsParked
    /\ NoHistory

\* the click on the submit button; each endpoint will stream a body
ConcSubmit(prompt) ==
    /\ handleSubmit(prompt)
    /\ \E f \in [Targets -> ConcFates] :
          streams' = [t \in Targets |-> [fate |-> f[t], pos |-> 0, st |-> NewStream]]

\* locals kept in one place for all calls: every call reads those of the
\* first card
LocalsShared(t) == streams[1].st

\* fullText, buffer, the counters and the decoder of the call of a target:
\* declared inside handleStreamingResponse
LocalsOf(t) == streams[t].st

\* reader.read() of a target returns the next bytes of its body: one turn
\* of the loop of its decoder, its deltas rendered on its card
ConcChunk(t) ==
    /\ req[t] \in {"inflight", "reading"}
    /\ streams[t].pos < Len(BodyOf(t))
    /\ LET pos == streams[t].pos
           n == IF Len(BodyOf(t)) - pos < ChunkLen THEN Len(BodyOf(t)) - pos
                ELSE ChunkLen
           locals == LocalsOf(t)
           st1 == LoopBody(ProviderOf(t), locals, SubSeq(BodyOf(t), pos + 1, pos + n),
                           CallbackThrows)
           chunks == SubSeq(st1.deltas, Len(locals.deltas) + 1, Len(st1.deltas))
       IN /\ streams' = [streams EXCEPT ![t].pos = pos + n, ![t].st = st1]
          /\ cards' = [cards EXCEPT ![t] = AppendChunks(@, chunks)]
    /\ req' = [req EXCEPT ![t] = "reading"]
    /\ UNCHANGED <<apiKeys, streamingEnabled, currentPrompt, inputDisabled,
                   fetched, results, currentResults, lastAlert, pc, submits,
                   retrying, retried>>
    /\ UNCHANGED <<decVars, execVars, classVars, priceVars, exportVars, costVars, proxyVars, settingsVars, histVars>>

\* the record of a call whose body has ended with the locals st, and the
\* locals after the flush
Closed(provider, fate, st) ==
    IF fate = "stream_breaks"
      THEN [st |-> st, result |-> StreamCatch(provider, st, "network error")]
      ELSE LET st1 == Flush(provider, st, CallbackThrows)
           IN [st |-> st1, result |-> Finish(provider, st1)]

\* reader.read() of a target returns done, or rejects: the flush, the
\* record, the .then callback
ConcClose(t) ==
    /\ req[t] \in {"inflight", "reading"}
    /\ streams[t].pos = Len(BodyOf(t))
    /\ LET locals == LocalsOf(t)
           end == Closed(ProviderOf(t), streams[t].fate, locals)
       IN Settle(t,
                 Fulfilled(Wrapped(ModelConfig(t), TRUE, TRUE,
                                   Priced(ModelConfig(t).id, ProviderOf(t),
                                          streams[t].fate, TRUE, end.result))),
                 SubSeq(end.st.deltas, Len(locals.deltas) + 1, Len(end.st.deltas)))
    /\ UNCHANGED <<apiKeys, streamingEnabled, currentPrompt, fetched, submits,
                   retrying, retried, streams>>
    /\ UNCHANGED <<decVars, execVars, classVars, priceVars, exportVars, costVars, proxyVars, settingsVars>>

ConcNext ==
    \/ ConcSubmit(PromptText)
    \/ \E t \in Targets : ConcChunk(t)
    \/ \E t \in Targets : ConcClose(t)

ConcSpec == ConcInit /\ [][ConcNext]_vars

\* ------------------------------------------------------ dispatch properties
SomeKey == \E p \in Providers : apiKeys[p]

\* a handleSubmit call has returned
DispatchEnded == submits > 0 /\ pc = "idle"

\* the records of a target in a result array
RecordsOf(t, responses) == {i \in 1..Len(responses) : responses[i].model = ModelConfig(t).name}

OnePerTarget(responses) ==
    /\ Len(responses) = NumTargets
    /\ \A t \in Targets : Cardinality(RecordsOf(t, responses)) = 1

IsSuccess(r) == r.result.error = Null /\ r.result.warning = Null
IsWarning(r) == r.result.error = Null /\ r.result.warning # Null
IsAuthError(r) == r.result.error # Null /\ r.result.errorType = "auth"

\* C1: in a dispatch the requests of all targets are started together; a
\* step of one target (its failure, its warning, its missing key) leaves
\* the requests, the cards and the records of the others as they are and
\* every other open request can still resolve, whatever became of it; the
\* batch is over exactly when every target has resolved.
ConcurrentIndependentTargets ==
    /\ [](\A u \in Targets :
            req[u] \in {"inflight", "reading"} =>
                ENABLED (\E fate \in DispatchFates : Respond(u, fate)))
    /\ [](pc = "awaiting" =>
            /\ \A t \in Targets : req[t] # "none" /\ (HasKey(t) => t \in fetched)
            /\ \E t \in Targets : req[t] # "resolved")
    /\ [](DispatchEnded /\ SomeKey =>
            /\ \A t \in Targets : req[t] = "resolved"
            /\ currentResults.set
            /\ currentResults.responses = results)
    /\ [][\A t \in Targets :
            pc = "awaiting" /\ req'[t] # req[t] =>
                /\ \A u \in Targets \ {t} : req'[u] = req[u] /\ cards'[u] = cards[u]
                /\ Len(results') >= Len(results)
                /\ SubSeq(results', 1, Len(results)) = results]_vars

\* three targets, the second without a key: the batch is over with three
\* records, an auth error for the second, a success for the first and third
ConcurrentIndependentTargetsWitness ==
    /\ DispatchEnded
    /\ ~HasKey(2)
    /\ Len(currentResults.responses) = NumTargets
    /\ \E i, j, k \in 1..NumTargets :
          /\ currentResults.responses[i].model = 1 /\ IsSuccess(currentResults.responses[i])
          /\ currentResults.responses[j].model = 2 /\ IsAuthError(currentResults.responses[j])
          /\ currentResults.responses[k].model = 3 /\ IsSuccess(currentResults.responses[k])

EveryDispatchReturns == (pc = "awaiting") ~> (pc = "idle" /\ ~inputDisabled)

\* the target has an auth error record and no request of its own
AuthWithoutFetch(t) ==
    /\ t \notin fetched
    /\ \E i \in RecordsOf(t, results) : IsAuthError(results[i])

NoRetryOpen == \A t \in Targets : retrying[t] = 0

\* the retained result set holds one record of the target, the one its
\* card shows
Retained(t) ==
    /\ currentResults.set
    /\ Cardinality(RecordsOf(t, currentResults.responses)) = 1
    /\ \A i \in RecordsOf(t, currentResults.responses) :
          cards[t].shown = <<currentResults.responses[i]>>

\* a retry that completes after the dispatch has ended puts its record in
\* the place of the record of its target
RetryAfterDispatchIsRetained ==
    [][\A t \in Targets :
          retrying'[t] < retrying[t] /\ pc = "idle" /\ currentResults.set =>
              /\ Len(currentResults'.responses) = Len(currentResults.responses)
              /\ Cardinality(RecordsOf(t, currentResults'.responses)) = 1
              /\ \A i \in RecordsOf(t, currentResults'.responses) :
                    cards'[t].shown = <<currentResults'.responses[i]>>]_vars

\* C16, as stated: once a retry of a target has completed, the retained
\* result set holds the record of the retry, the one the card of the target
\* shows, in the place of the previous record of the target, and one record
\* for the target, however the retry was interleaved with the requests of
\* the dispatch.
RetryRecordIsRetained ==
    DispatchEnded /\ SomeKey /\ NoRetryOpen =>
        \A t \in Targets : retried[t] > 0 => Retained(t)

\* C17: a step of a retry of one target (its start, its end) leaves the
\* record of every other target in the retained result set as it is, at
\* the position it has, leaves the length of the set as it is, and starts
\* or ends no request of any other target.
RetryLeavesOthersAlone ==
    [][\A t \in Targets :
          retrying'[t] # retrying[t] =>
              /\ \A u \in Targets \ {t} :
                    req'[u] = req[u] /\ retrying'[u] = retrying[u]
              /\ fetched' \subseteq fetched \cup {t}
              /\ currentResults'.set = currentResults.set
              /\ Len(currentResults'.responses) = Len(currentResults.responses)
              /\ \A i \in 1..Len(currentResults.responses) :
                    currentResults.responses[i].model # ModelConfig(t).name =>
                        currentResults'.responses[i] = currentResults.responses[i]]_vars

\* a retry has put a success in the place of the record of its target, which
\* is not the first of the retained set, and the set holds the error record
\* of another target
RetryLeavesOthersAloneWitness ==
    /\ DispatchEnded
    /\ NoRetryOpen
    /\ \E t \in Targets :
          /\ retried[t] > 0
          /\ Retained(t)
          /\ IsSuccess(cards[t].shown[1])
          /\ 1 \notin RecordsOf(t, currentResults.responses)
          /\ \E u \in Targets \ {t} :
                \E i \in RecordsOf(u, currentResults.responses) :
                    currentResults.responses[i].result.error # Null

\* C18: a request of a target starts in flight, may have deltas rendered
\* (reading) and is resolved from there, once, with one record pushed and
\* shown; a card that shows a record renders no further delta, and a card
\* enters the streaming state only in the step in which a dispatch or a
\* retry starts a request for it.
TargetLifeCycle ==
    [][\A t \in Targets :
          /\ req'[t] = "reading" /\ req[t] # "reading" => req[t] = "inflight"
          /\ req'[t] = "resolved" /\ submits' = submits =>
                req[t] \in {"inflight", "reading", "resolved"}
          /\ req[t] \in {"inflight", "reading"} /\ req'[t] = "resolved" =>
                /\ results' = Append(results, results'[Len(results')])
                /\ results'[Len(results')].model = ModelConfig(t).name
                /\ cards'[t].shown = <<results'[Len(results')]>>
                /\ ~cards'[t].isStreaming
          /\ req[t] = "resolved" /\ submits' = submits =>
                /\ req'[t] = "resolved"
                /\ Cardinality(RecordsOf(t, results'))
                      = Cardinality(RecordsOf(t, results))
          /\ retrying'[t] < retrying[t] =>
                cards'[t].shown # <<>> /\ ~cards'[t].isStreaming
          /\ ~cards[t].isStreaming /\ ~cards'[t].isStreaming =>
                cards'[t].streamedText = cards[t].streamedText
          /\ cards[t].shown # <<>> /\ cards'[t].isStreaming =>
                \/ submits' = submits + 1 /\ req'[t] = "inflight"
                \/ retrying'[t] = retrying[t] + 1
          /\ ~cards[t].isStreaming /\ cards'[t].isStreaming =>
                \/ submits' = submits + 1 /\ req'[t] = "inflight"
                \/ retrying'[t] = retrying[t] + 1]_vars

\* the card of one target shows the record of a retry after the deltas of
\* the retry, while the request of another target of the dispatch has had
\* its first delta rendered and is not resolved
TargetLifeCycleWitness ==
    \E t, u \in Targets :
        /\ retried[t] > 0
        /\ ~cards[t].isStreaming
        /\ cards[t].streamedText # <<>>
        /\ cards[t].shown # <<>>
        /\ req[u] = "reading"
        /\ cards[u].isStreaming
        /\ cards[u].streamedText # <<>>

\* no delta has been rendered on a card and no record that is shown or
\* kept comes from a stream decoder
NothingStreamed ==
    /\ \A t \in Targets :
          /\ cards[t].streamedText = <<>>
          /\ cards[t].shown # <<>> => ~cards[t].shown[1].result.streamed
    /\ \A i \in 1..Len(results) : ~results[i].result.streamed
    /\ \A i \in 1..Len(currentResults.responses) :
          ~currentResults.responses[i].result.streamed

\* with streaming disabled the requests of the dispatch are single calls
\* without a delta callback
DispatchStreamsOnlyWhenEnabled ==
    ~streamingEnabled /\ (\A t \in Targets : retrying[t] = 0 /\ retried[t] = 0) =>
        NothingStreamed /\ \A t \in Targets : req[t] # "reading"

\* C19, as stated: with the streaming preference disabled no request, of
\* the dispatch or of a retry, is streamed and no delta is rendered.
StreamsOnlyWhenEnabled == ~streamingEnabled => NothingStreamed

\* ------------------------------------------ concurrent decoder properties
\* the locals of a decoder that reads the first upto bytes of a body alone,
\* in reads of ChunkLen bytes
RECURSIVE SoloLocals(_, _, _, _, _)
SoloLocals(provider, body, pos, upto, st) ==
    IF pos >= upto THEN st
    ELSE LET n == IF Len(body) - pos < ChunkLen THEN Len(body) - pos ELSE ChunkLen
         IN SoloLocals(provider, body, pos + n, upto,
                       LoopBody(provider, st, SubSeq(body, pos + 1, pos + n), FALSE))

\* what a target gets when its stream is the only one
Solo(t) ==
    Closed(ProviderOf(t), streams[t].fate,
           SoloLocals(ProviderOf(t), BodyOf(t), 0, Len(BodyOf(t)), NewStream))

\* C20: whatever the order in which the chunks of the targets arrive, the
\* locals of the decoder of a target and the text on its card are those of
\* a decoder that reads the same bytes alone, and the record of a resolved
\* target (text, token counts) and the deltas on its card are those it
\* gets when its stream is the only one.
OwnStreamOnly ==
    \A t \in Targets :
        /\ req[t] \in {"inflight", "reading"} =>
              /\ streams[t].st
                    = SoloLocals(ProviderOf(t), BodyOf(t), 0, streams[t].pos, NewStream)
              /\ cards[t].streamedText = Flatten(streams[t].st.deltas)
        /\ req[t] = "resolved" =>
              /\ cards[t].shown
                    = <<Wrapped(ModelConfig(t), TRUE, TRUE,
                                Priced(ModelConfig(t).id, ProviderOf(t), streams[t].fate,
                                       TRUE, Solo(t).result))>>
              /\ cards[t].streamedText = Flatten(Solo(t).st.deltas)
              /\ \E i \in 1..Len(results) : <<results[i]>> = cards[t].shown
              /\ streams[t].fate = "ok_text" =>
                    /\ cards[t].shown[1].result.text = <<"O", "K">>
                    /\ cards[t].streamedText = <<"O", "K">>

\* the first target has its whole completion on its card while the second,
\* with an empty completion, and the third, with a completion, are in the
\* middle of their bodies
OwnStreamOnlyWitness ==
    /\ req[1] = "resolved" /\ streams[1].fate = "ok_text"
    /\ cards[1].streamedText = <<"O", "K">>
    /\ req[2] = "reading" /\ streams[2].fate = "ok_empty"
    /\ streams[2].pos > 0 /\ streams[2].pos < Len(BodyOf(2))
    /\ req[3] = "reading" /\ streams[3].fate = "ok_text"
    /\ cards[3].streamedText = <<"O">>

\* ------------------------------------------------------ retry offer properties
\* the card of a target after the record of its request is shown
CardOf(record) == setResponse(NewCard, record)

\* the request has ended in a record that carries an error
ExecFailed ==
    /\ xState = "settled"
    /\ xOutcome.settle = "fulfilled"
    /\ xOutcome.record.result.error # Null

\* Where the error handler names the category: the Retry button is offered
\* for rate_limit, overloaded, timeout and network, and is not offered for
\* auth, quota, model_not_found and safety.
RetryOfferedForTransientCategories ==
    ExecFailed =>
        LET type == xOutcome.record.result.errorType IN
        /\ (type \in {"rate_limit", "overloaded", "timeout", "network"}
              => HasRetryButton(CardOf(xOutcome.record)))
        /\ (type \in {"auth", "quota", "model_not_found", "safety"}
              => ~HasRetryButton(CardOf(xOutcome.record)))

\* C24, as stated: a failed target is offered the retry action exactly when
\* the category of its error is rate_limit, overloaded, timeout, network or
\* unknown.
RetryOfferedExactlyForRetryable ==
    ExecFailed =>
        ( HasRetryButton(CardOf(xOutcome.record))
            <=> xOutcome.record.result.errorType
                  \in {"rate_limit", "overloaded", "timeout", "network", "unknown"} )

\* ------------------------------------------------- transport failure properties
\* fetch() of makeRequest rejected before any response was received
FetchRejected == xState = "settled" /\ xFate = "fetch_rejects"

\* Where the catch of makeRequest hands the error to ErrorHandler.parseError
\* (OpenAI, Google): a rejected fetch ends in a record of category network
\* with a Retry button, with and without a delta callback.
FetchRejectionIsNetworkWhereParsed ==
    FetchRejected /\ xConfig.provider \in {"openai", "google"} =>
        /\ xOutcome.record.result.error # Null
        /\ xOutcome.record.result.errorType = "network"
        /\ HasRetryButton(CardOf(xOutcome.record))

\* C25, as stated: for every provider and in both modes a rejected fetch
\* yields an error record of category network, which is offered the retry
\* action.
FetchRejectionIsRetryableNetwork ==
    FetchRejected =>
        /\ xOutcome.record.result.error # Null
        /\ xOutcome.record.result.errorType = "network"
        /\ HasRetryButton(CardOf(xOutcome.record))

\* --------------------------------------------------- terminal reason properties
\* the record carries the reason under the field name of its provider
CarriesReason(r, reason) == r.stopReason = reason \/ r.finishReason = reason

\* a completed response whose provider reported a terminal reason has been
\* turned into a success or warning record
ReasonReported ==
    /\ clState = "classified"
    /\ clCompletion.reason # Null
    /\ clResult.error = Null

\* The records that keep the reason: every non-streamed OpenAI and Google
\* record, every streamed Anthropic record, and the non-streamed Anthropic
\* warning record.
ReasonCarriedWhereCopied ==
    ReasonReported =>
        /\ (~clStreamed /\ clProvider \in {"openai", "google"}
              => CarriesReason(clResult, clCompletion.reason))
        /\ (clProvider = "anthropic" /\ (clStreamed \/ clResult.warning # Null)
              => CarriesReason(clResult, clCompletion.reason))

\* C26, as stated: whenever the provider reports a terminal reason, the
\* success or warning record carries that raw reason string, for every
\* provider, streamed or not.
ReasonAlwaysCarried ==
    ReasonReported => CarriesReason(clResult, clCompletion.reason)

\* ------------------------------------------------------ record shape properties
\* the record has every identifying field
FullyLabelled(record) ==
    /\ record.model # 0
    /\ record.modelId # 0
    /\ record.provider # Null
    /\ record.hasContextWindow
    /\ record.hasTimestamp
    /\ record.hasLatency

\* A record built around the result of makeRequest has every identifying
\* field; every record has model, provider and latency.
AdapterRecordsAreLabelled ==
    xState = "settled" /\ xOutcome.settle = "fulfilled" =>
        /\ xOutcome.record.model # 0
        /\ xOutcome.record.provider # Null
        /\ xOutcome.record.hasLatency
        /\ (xFetched => FullyLabelled(xOutcome.record))

\* C27, as stated: every record executeRequest returns, the missing-key and
\* the caught-exception records included, carries model, modelId, provider,
\* contextWindow, timestamp and latency.
EveryRecordIsLabelled ==
    xState = "settled" /\ xOutcome.settle = "fulfilled" =>
        FullyLabelled(xOutcome.record)

\* ======================================================================
\* The pricing service (api/pricing-service.js), the singleton PricingService
\* ======================================================================
\* calls of the service and the span of the clock
MaxCalls == 3
MaxTime == 3

\* CACHE_DURATION_MS, in ticks of twelve hours
Window == 2

Calls == 1..MaxCalls

\* parseFloat of the price strings of the catalog
parseFloat(str) ==
    CASE str = "2" -> 2
      [] str = "3" -> 3

\* the models OpenRouter may list: one with pricing, one without
CatalogModels ==
    { [id |-> "openai/gpt-4o", priced |-> TRUE, prompt |-> "2", completion |-> "3"],
      [id |-> "x/unpriced", priced |-> FALSE, prompt |-> "2", completion |-> "2"] }

\* data.data || []: no list, or the whole list
Catalogs == {{}, CatalogModels}

\* the cache the loop of fetchAllModels builds from a catalog at time t
CacheOf(catalog, t) ==
    { [ id |-> m.id, input |-> parseFloat(m.prompt) * 1000,
        output |-> parseFloat(m.completion) * 1000, source |-> "openrouter",
        cachedAt |-> t ] : m \in {x \in catalog : x.priced} }

\* the ids getPricing is asked for
QueryIds == {"gpt-4o-mini", "mistral-x"}

\* PricingService.getModelMappings, in the order of the pushes
getModelMappings(modelId) ==
    CASE modelId = "gpt-4o-mini" ->
           <<"openai/gpt-4o-mini", "anthropic/gpt-4o-mini", "google/gpt-4o-mini",
             "openai/gpt-4o", "openai/gpt-4o-2024-11-20">>
      [] OTHER ->
           <<"openai/mistral-x", "anthropic/mistral-x", "google/mistral-x">>

\* cachedId.includes(modelId) || modelId.includes(cachedId.split('/').pop())
PartialMatch(cachedId, modelId) ==
    cachedId = "openai/gpt-4o" /\ modelId = "gpt-4o-mini"

CacheHas(ca, id) == \E e \in ca : e.id = id
CacheGet(ca, id) == CHOOSE e \in ca : e.id = id

\* getPricing after its await: exact match, then the mappings in order, then
\* a partial match; <<>> is null
Lookup(ca, modelId) ==
    LET maps == getModelMappings(modelId)
        hits == {i \in 1..Len(maps) : CacheHas(ca, maps[i])}
    IN IF CacheHas(ca, modelId) THEN <<CacheGet(ca, modelId)>>
       ELSE IF hits # {}
         THEN <<CacheGet(ca, maps[CHOOSE i \in hits : \A j \in hits : i <= j])>>
       ELSE IF \E e \in ca : PartialMatch(e.id, modelId)
         THEN <<CHOOSE e \in ca : PartialMatch(e.id, modelId)>>
       ELSE <<>>

\* PricingService.isCacheValid
isCacheValid(lf, t) ==
    IF lf = NoTime \/ lf = 0 THEN FALSE ELSE t - lf < Window

\* a fetchAllModels that never finds a fetch under way
AlreadyFetchingNever(fp) == FALSE

\* if (this.fetchPromise)
AlreadyFetching(fp) == fp # 0

\* a cache that never expires
ServesFromCacheAlways(lf, t, all) == all # <<>>

\* if (this.isCacheValid() && this.allModels)
ServesFromCache(lf, t, all) == isCacheValid(lf, t) /\ all # <<>>

\* a call that has not been made
IdleCall ==
    [ op |-> "none", modelId |-> Null, state |-> "idle", awaits |-> 0, started |-> FALSE,
      at |-> NoTime, joined |-> {}, successAt |-> NoTime, refreshed |-> FALSE,
      models |-> {}, price |-> <<>> ]

\* how the promise of a request resolved
NoOutcome == [settled |-> FALSE, ok |-> FALSE, models |-> {}]

PriceInit ==
    /\ cache = {}
    /\ lastFetch = NoTime
    /\ allModels = <<>>
    /\ fetchPromise = 0
    /\ now = 1
    /\ requests = 0
    /\ inFlight = {}
    /\ outcomes = [n \in Calls |-> NoOutcome]
    /\ calls = [c \in Calls |-> IdleCall]
    /\ lastSuccess = NoTime
    /\ refreshedSince = FALSE
    /\ DecParked
    /\ ExecParked
    /\ ClassParked
    /\ AppParked
    /\ ExportParked
    /\ CostParked
    /\ ProxyParked
    /\ SettingsParked
    /\ HistParked

\* the next call of the service is call c
NextCall(c) ==
    /\ calls[c].state = "idle"
    /\ \A d \in Calls : d < c => calls[d].state # "idle"

\* what a call notes when it is made
Made(op, modelId, awaits, started) ==
    [ IdleCall EXCEPT !.op = op, !.modelId = modelId, !.state = "awaiting",
                      !.awaits = awaits, !.started = started, !.at = now,
                      !.joined = inFlight, !.successAt = lastSuccess,
                      !.refreshed = refreshedSince,
                      !.models = IF allModels = <<>> THEN {} ELSE allModels[1] ]

\* fetchAllModels up to its return, called with lastFetch = lf: it hands out
\* the promise of the fetch under way, or the cached catalog, or starts a
\* fetch and stores its promise
fetchAllModels(c, op, modelId, lf) ==
    IF AlreadyFetching(fetchPromise)
      THEN /\ calls' = [calls EXCEPT ![c] = Made(op, modelId, fetchPromise, FALSE)]
           /\ UNCHANGED <<fetchPromise, requests, inFlight>>
    ELSE IF ServesFromCache(lf, now, allModels)
      THEN /\ calls' = [calls EXCEPT ![c] = Made(op, modelId, 0, FALSE)]
           /\ UNCHANGED <<fetchPromise, requests, inFlight>>
    ELSE /\ requests' = requests + 1
         /\ fetchPromise' = requests + 1
         /\ inFlight' = inFlight \cup {requests + 1}
         /\ calls' = [calls EXCEPT ![c] = Made(op, modelId, requests + 1, TRUE)]

\* a caller calls pricingService.fetchAllModels()
CallFetchAllModels(c) ==
    /\ NextCall(c)
    /\ fetchAllModels(c, "fetchAllModels", Null, lastFetch)
    /\ UNCHANGED <<cache, lastFetch, allModels, now, outcomes, lastSuccess, refreshedSince>>
    /\ UNCHANGED <<decVars, execVars, classVars, appVars, exportVars, costVars, proxyVars, settingsVars, histVars>>

\* a caller calls pricingService.getPricing(modelId): up to its await
CallGetPricing(c, modelId) ==
    /\ NextCall(c)
    /\ fetchAllModels(c, "getPricing", modelId, lastFetch)
    /\ UNCHANGED <<cache, lastFetch, allModels, now, outcomes, lastSuccess, refreshedSince>>
    /\ UNCHANGED <<decVars, execVars, classVars, appVars, exportVars, costVars, proxyVars, settingsVars, histVars>>

\* a caller calls pricingService.refresh()
CallRefresh(c) ==
    /\ NextCall(c)
    /\ lastFetch' = NoTime
    /\ cache' = {}
    /\ fetchAllModels(c, "refresh", Null, NoTime)
    /\ refreshedSince' = TRUE
    /\ UNCHANGED <<allModels, now, outcomes, lastSuccess>>
    /\ UNCHANGED <<decVars, execVars, classVars, appVars, exportVars, costVars, proxyVars, settingsVars, histVars>>

\* no continuation waits to run: a response of the network and a timer are
\* tasks, and a task starts when the microtask queue is empty
QueueEmpty == \A c \in Calls : calls[c].state = "awaiting" => calls[c].awaits \in inFlight

\* the request n ends well: the body of the try block and the finally
FetchSucceeds(n, catalog) ==
    /\ n \in inFlight
    /\ QueueEmpty
    /\ allModels' = <<catalog>>
    /\ lastFetch' = now
    /\ cache' = CacheOf(catalog, now)
    /\ fetchPromise' = 0
    /\ inFlight' = inFlight \ {n}
    /\ outcomes' = [outcomes EXCEPT ![n] = [settled |-> TRUE, ok |-> TRUE, models |-> catalog]]
    /\ lastSuccess' = now
    /\ refreshedSince' = FALSE
    /\ UNCHANGED <<now, requests, calls>>
    /\ UNCHANGED <<decVars, execVars, classVars, appVars, exportVars, costVars, proxyVars, settingsVars, histVars>>

\* the request n fails (fetch rejects, the status is not OK, the body is
\* not JSON): the catch and the finally
FetchFails(n) ==
    /\ n \in inFlight
    /\ QueueEmpty
    /\ fetchPromise' = 0
    /\ inFlight' = inFlight \ {n}
    /\ outcomes' = [outcomes EXCEPT ![n] = [settled |-> TRUE, ok |-> FALSE, models |-> {}]]
    /\ UNCHANGED <<cache, lastFetch, allModels, now, requests, calls, lastSuccess,
                   refreshedSince>>
    /\ UNCHANGED <<decVars, execVars, classVars, appVars, exportVars, costVars, proxyVars, settingsVars, histVars>>

\* the promise a call awaits has resolved: fetchAllModels and refresh return
\* its value, getPricing looks the model up in the cache
Return(c) ==
    /\ calls[c].state = "awaiting"
    /\ calls[c].awaits \notin inFlight
    /\ calls' = [calls EXCEPT
                   ![c].state = "done",
                   ![c].models = IF calls[c].awaits = 0 THEN @
                                 ELSE outcomes[calls[c].awaits].models,
                   ![c].price = IF calls[c].op = "getPricing"
                                  THEN Lookup(cache, calls[c].modelId) ELSE <<>>]
    /\ UNCHANGED <<cache, lastFetch, allModels, fetchPromise, now, requests, inFlight,
                   outcomes, lastSuccess, refreshedSince>>
    /\ UNCHANGED <<decVars, execVars, classVars, appVars, exportVars, costVars, proxyVars, settingsVars, histVars>>

\* time passes
Tick ==
    /\ now < MaxTime
    /\ QueueEmpty
    /\ now' = now + 1
    /\ UNCHANGED <<cache, lastFetch, allModels, fetchPromise, requests, inFlight, outcomes,
                   calls, lastSuccess, refreshedSince>>
    /\ UNCHANGED <<decVars, execVars, classVars, appVars, exportVars, costVars, proxyVars, settingsVars, histVars>>

PriceNext ==
    \/ \E c \in Calls : CallFetchAllModels(c)
    \/ \E c \in Calls, modelId \in QueryIds : CallGetPricing(c, modelId)
    \/ \E c \in Calls : CallRefresh(c)
    \/ \E n \in Calls, catalog \in Catalogs : FetchSucceeds(n, catalog)
    \/ \E n \in Calls : FetchFails(n)
    \/ \E c \in Calls : Return(c)
    \/ Tick

PriceSpec == PriceInit /\ [][PriceNext]_vars

\* ---------------------------------------------------- pricing cache properties
\* the calls that have been made
MadeCalls == {c \in Calls : calls[c].state # "idle"}

\* C28: at most one catalog fetch is in flight at any time; fetchPromise is
\* set exactly while a fetch is in flight (it is cleared when the fetch
\* settles, well or not); a call of fetchAllModels, getPricing or refresh
\* made while a fetch is in flight starts no request and awaits that fetch.
OneFetchInFlight ==
    /\ Cardinality(inFlight) <= 1
    /\ (inFlight = {} <=> fetchPromise = 0)
    /\ (inFlight # {} => inFlight = {fetchPromise})
    /\ \A c \in MadeCalls :
          calls[c].joined # {} => ~calls[c].started /\ calls[c].awaits \in calls[c].joined

\* a refresh() made while the fetch of an earlier call was in flight has
\* awaited that fetch, which then failed and cleared the marker
OneFetchInFlightWitness ==
    \E c \in MadeCalls :
        /\ calls[c].op = "refresh"
        /\ calls[c].joined # {}
        /\ calls[c].state = "done"
        /\ requests = 1
        /\ ~outcomes[1].ok
        /\ fetchPromise = 0

\* the calls of getPricing and fetchAllModels made after a fetch succeeded
LookupsAfterSuccess ==
    { c \in MadeCalls : calls[c].op \in {"getPricing", "fetchAllModels"}
                          /\ calls[c].successAt # NoTime }

\* the call was made within the freshness window of the last successful fetch
InWindow(c) == calls[c].at - calls[c].successAt < Window

\* no earlier getPricing or fetchAllModels call was made after the window of
\* the same fetch had elapsed
FirstAfterWindow(c) ==
    /\ ~InWindow(c)
    /\ \A d \in LookupsAfterSuccess :
          d < c /\ calls[d].successAt = calls[c].successAt => InWindow(d)

\* the call was answered from the cache: it started no request and awaited none
FromCache(c) == ~calls[c].started /\ calls[c].awaits = 0

\* C29, as stated: after a successful fetch every getPricing or
\* fetchAllModels call made within the freshness window is served from the
\* cache without a network request, and the first call made after the window
\* has elapsed starts a new fetch.
CacheServesWithinWindow ==
    \A c \in LookupsAfterSuccess :
        /\ (InWindow(c) => FromCache(c))
        /\ (FirstAfterWindow(c) => calls[c].started)

\* C29, amended: after a successful fetch, and as long as refresh() has not
\* been called since, every getPricing or fetchAllModels call made within
\* the freshness window is served from the cache without a network request,
\* and the first call made after the window has elapsed starts a new fetch.
CacheServesWithinWindowUnlessRefreshed ==
    \A c \in LookupsAfterSuccess :
        ~calls[c].refreshed =>
            /\ (InWindow(c) => FromCache(c))
            /\ (FirstAfterWindow(c) => calls[c].started)

\* a getPricing call made one tick after a successful fetch was answered
\* from the cache, and a later call, made when the window had elapsed,
\* started the second request
CacheServesWithinWindowWitness ==
    \E c, d \in LookupsAfterSuccess :
        /\ c < d
        /\ calls[c].op = "getPricing" /\ ~calls[c].refreshed
        /\ InWindow(c) /\ calls[c].at > calls[c].successAt
        /\ calls[c].state = "done" /\ FromCache(c)
        /\ ~calls[d].refreshed /\ FirstAfterWindow(d) /\ calls[d].started
        /\ requests = 2

\* the getPricing calls that have returned a price
PricedAnswers ==
    {c \in Calls : calls[c].state = "done" /\ calls[c].op = "getPricing"
                     /\ calls[c].price # <<>>}

\* the fetch the call awaited has failed
AwaitedFailure(c) == calls[c].awaits # 0 /\ ~outcomes[calls[c].awaits].ok

\* A price returned by a call that was answered from the cache, or whose
\* fetch succeeded, was cached less than the freshness window before the call.
PriceIsFreshUnlessFetchFailed ==
    \A c \in PricedAnswers :
        ~AwaitedFailure(c) => calls[c].at - calls[c].price[1].cachedAt < Window

\* C30, as stated: getPricing never returns a price that was cached longer
\* ago than the freshness window; when the fetch attempted after the window
\* has elapsed fails, the entries cached before are not used for the answer.
NoStalePrice ==
    \A c \in PricedAnswers : calls[c].at - calls[c].price[1].cachedAt < Window

\* ======================================================================
\* The exporter (utils/export.js), Exporter.exportToJSON
\* ======================================================================
\* the latencies of a request that reached fetch(), in milliseconds
ExportLatencies == {1, 4}

\* a record of currentResults.responses: what executeRequest returned, with
\* the latency its tracker measured
Timed(out, latency) == [rec |-> out.record, latency |-> latency]

\* The records an export may meet: a success, a warning, an error, an error
\* that keeps the text streamed before it, each with a measured latency, and
\* the record of a target without a key, whose latency is the literal 0.
ExportRecords ==
    { Timed(ExecuteRequest(ModelConfigOf(1, "openai"), TRUE, FALSE, FALSE, fate), l) :
        fate \in {"ok_text", "ok_empty", "http_429"}, l \in ExportLatencies }
    \cup { Timed(ExecuteRequest(ModelConfigOf(1, "anthropic"), TRUE, TRUE, FALSE,
                                "stream_breaks"), l) : l \in ExportLatencies }
    \cup { Timed(ExecuteRequest(ModelConfigOf(1, "google"), FALSE, FALSE, FALSE, "ok_text"), 0) }

\* the responses arrays of at most NumTargets records
ExportResponses ==
    UNION { [1..n -> ExportRecords] : n \in 0..NumTargets }

\* the truthiness of r.error, r.warning and r.latency
HasError(r) == r.rec.result.error # Null
HasWarning(r) == r.rec.result.warning # Null
HasLatency(r) == r.latency # 0

\* responses.filter(keep).length
CountOf(responses, keep(_)) == Cardinality({i \in 1..Len(responses) : keep(responses[i])})

\* responses.reduce((sum, r) => sum + f(r), 0)
RECURSIVE Reduce(_, _, _)
Reduce(responses, f(_), sum) ==
    IF responses = <<>> THEN sum
    ELSE Reduce(Tail(responses), f, sum + f(Head(responses)))

RECURSIVE Gcd(_, _)
Gcd(a, b) == IF b = 0 THEN a ELSE Gcd(b, a % b)

\* the quotient a / b of two numbers, b positive, as a fraction in lowest
\* terms
Quotient(a, b) == [num |-> a \div Gcd(a, b), den |-> b \div Gcd(a, b)]

\* the number 0
Zero == [num |-> 0, den |-> 1]

KeptLatency(r) == r.latency

\* a mean that leaves the failed records in
calculateAverageLatencyOfAll(responses) ==
    LET valid == SelectSeq(responses, HasLatency)
    IN IF Len(valid) = 0 THEN Zero
       ELSE Quotient(Reduce(valid, KeptLatency, 0), Len(valid))

\* Exporter.calculateAverageLatency
calculateAverageLatency(responses) ==
    LET Valid(r) == ~HasError(r) /\ HasLatency(r)
        valid == SelectSeq(responses, Valid)
    IN IF Len(valid) = 0 THEN Zero
       ELSE Quotient(Reduce(valid, KeptLatency, 0), Len(valid))

\* r.estimatedCost || 0
CostOrZero(r) ==
    IF r.rec.result.estimatedCost \in {Absent, NoCost} THEN 0
    ELSE r.rec.result.estimatedCost

\* the summary of Exporter.exportToJSON
Summary(data) ==
    LET Plain(r) == ~HasError(r) /\ ~HasWarning(r)
    IN [ totalModels |-> Len(data.responses),
         successfulResponses |-> CountOf(data.responses, Plain),
         responsesWithWarnings |-> CountOf(data.responses, HasWarning),
         failedResponses |-> CountOf(data.responses, HasError),
         totalCost |-> Reduce(data.responses, CostOrZero, 0),
         averageLatency |-> calculateAverageLatency(data.responses) ]

ExportInit ==
    /\ exData \in [prompt : {PromptText}, responses : ExportResponses]
    /\ exSummary = Null
    /\ exState = "ready"
    /\ DecParked
    /\ ExecParked
    /\ ClassParked
    /\ AppParked
    /\ PriceParked
    /\ CostParked
    /\ ProxyParked
    /\ SettingsParked
    /\ HistParked

\* the user exports the results
Export ==
    /\ exState = "ready"
    /\ exSummary' = Summary(exData)
    /\ exState' = "exported"
    /\ UNCHANGED exData
    /\ UNCHANGED <<decVars, execVars, classVars, appVars, priceVars, costVars, proxyVars, settingsVars, histVars>>

ExportNext == Export

ExportSpec == ExportInit /\ [][ExportNext]_vars

\* ------------------------------------------------------------ export properties
\* the status of a record: failed when it has an error, warned when it has a
\* warning and no error, successful otherwise
StatusOf(r) ==
    IF r.rec.result.error # Null THEN "failed"
    ELSE IF r.rec.result.warning # Null THEN "warned"
    ELSE "successful"

\* the records of a status
WithStatus(status) ==
    {i \in 1..Len(exData.responses) : StatusOf(exData.responses[i]) = status}

\* the sum of the latencies of the records at the indices in set
RECURSIVE LatencySum(_)
LatencySum(set) ==
    IF set = {} THEN 0
    ELSE LET i == CHOOSE j \in set : TRUE
         IN exData.responses[i].latency + LatencySum(set \ {i})

\* C31: in the export summary each of the three counts is the number of
\* records of its status, a record has one status, the counts sum to
\* totalModels, and averageLatency is the mean latency of the records
\* without an error (successful and warned), 0 when there are none.
SummaryIsCoherent ==
    exState = "exported" =>
        LET clean == WithStatus("successful") \cup WithStatus("warned")
        IN /\ exSummary.totalModels = Len(exData.responses)
           /\ exSummary.successfulResponses = Cardinality(WithStatus("successful"))
           /\ exSummary.responsesWithWarnings = Cardinality(WithStatus("warned"))
           /\ exSummary.failedResponses = Cardinality(WithStatus("failed"))
           /\ exSummary.successfulResponses + exSummary.responsesWithWarnings
                + exSummary.failedResponses = exSummary.totalModels
           /\ IF clean = {} THEN exSummary.averageLatency.num = 0
              ELSE exSummary.averageLatency.num * Cardinality(clean)
                     = exSummary.averageLatency.den * LatencySum(clean)

\* a success of 1 ms, a warning of 4 ms and an error of 4 ms were exported:
\* one record of each status, a mean of 5/2
SummaryIsCoherentWitness ==
    /\ exState = "exported"
    /\ Len(exData.responses) = 3
    /\ StatusOf(exData.responses[1]) = "successful" /\ exData.responses[1].latency = 1
    /\ StatusOf(exData.responses[2]) = "warned" /\ exData.responses[2].latency = 4
    /\ StatusOf(exData.responses[3]) = "failed" /\ exData.responses[3].latency = 4
    /\ exSummary.averageLatency = [num |-> 5, den |-> 2]
    /\ exSummary.failedResponses = 1

\* ======================================================================
\* Metrics.calculateCost (api/metrics.js), called on its own
\* ======================================================================
\* the largest token count tried
MaxTokens == 3

\* prices per 1K tokens, in whole units
Prices == {0, 3, 15}

\* null, or an entry with an input and an output price
Pricings == {<<>>} \cup {<<[input |-> i, output |-> o]>> : i \in Prices, o \in Prices}

CostInit ==
    /\ costPricing \in Pricings
    /\ costIn \in 0..MaxTokens
    /\ costOut \in 0..MaxTokens
    /\ costResult = Absent
    /\ costState = "ready"
    /\ DecParked
    /\ ExecParked
    /\ ClassParked
    /\ AppParked
    /\ PriceParked
    /\ ExportParked
    /\ ProxyParked
    /\ SettingsParked
    /\ HistParked

\* Metrics.calculateCost(pricing, inputTokens, outputTokens) is called
CostCall ==
    /\ costState = "ready"
    /\ costResult' = calculateCost(costPricing, costIn, costOut)
    /\ costState' = "done"
    /\ UNCHANGED <<costPricing, costIn, costOut>>
    /\ UNCHANGED <<decVars, execVars, classVars, appVars, priceVars, exportVars, proxyVars, settingsVars, histVars>>

CostNext == CostCall

CostSpec == CostInit /\ [][CostNext]_vars

\* -------------------------------------------------------------- cost properties
\* C32: for a pricing p that is not null and token counts i and o, the cost
\* is (i/1000)*p.input + (o/1000)*p.output (here times a thousand); for a
\* null pricing the result is null, not 0, whatever the counts.
CostIsLinear ==
    costState = "done" =>
        IF costPricing = <<>> THEN costResult = NoCost /\ costResult # 0
        ELSE costResult = costIn * costPricing[1].input + costOut * costPricing[1].output

\* two input tokens at 3 and three output tokens at 15 cost 51 thousandths
CostIsLinearWitness ==
    /\ costState = "done"
    /\ costPricing = <<[input |-> 3, output |-> 15]>>
    /\ costIn = 2 /\ costOut = 3
    /\ costResult = 51

\* ======================================================================
\* The proxy routes of server.js between makeRequest and the provider's API
\* ======================================================================
\* What the provider's API does with the forwarded request:
\*   up_rejects           the proxy's fetch() rejects
\*   up_401/429/500/529   non-OK status with a JSON error body
\*   up_ok_text, up_ok_empty  OK status, a completion with or without text
\*   up_breaks            OK status, the body fails while the proxy reads it
UpstreamErrors == {"up_401", "up_429", "up_500", "up_529"}

UpstreamFates == {"up_rejects", "up_ok_text", "up_ok_empty", "up_breaks"} \cup UpstreamErrors

\* response.status of the upstream response
UpStatus(up) ==
    CASE up = "up_401" -> 401
      [] up = "up_429" -> 429
      [] up = "up_500" -> 500
      [] up = "up_529" -> 529
      [] OTHER -> 200

\* the lines of the upstream body the proxy reads from response.body, up to
\* the failure when the body fails
UpLines(provider, up) ==
    CASE up = "up_ok_text"  -> StreamLines(provider, "ok_text")
      [] up = "up_ok_empty" -> StreamLines(provider, "ok_empty")
      [] up = "up_breaks"   -> StreamLines(provider, "stream_breaks")
      [] OTHER              -> <<Obj("err")>>

\* the completion a successful upstream answers a one-shot request with
UpCompletion(up) == IF up = "up_ok_text" THEN "ok_text" ELSE "ok_empty"

\* What a route sends.  status is 200 unless res.status() was called; a JSON
\* body is the upstream's (message "") or { error: { message } } of the
\* proxy; an event stream is the lines written and how the response ends:
\* "ended" (res.end()), "reset" (the connection is destroyed) or "open".
JsonResponse(status, message, completion) ==
    [ status |-> status, sse |-> FALSE, message |-> message, completion |-> completion,
      lines |-> <<>>, terminated |-> TRUE, end |-> "ended" ]

StreamResponse(lines, terminated, end) ==
    [ status |-> 200, sse |-> TRUE, message |-> "", completion |-> "ok_empty",
      lines |-> lines, terminated |-> terminated, end |-> end ]

\* const data = await response.json(); res.status(response.status).json(data)
\* and, where response.json() rejects, the catch of the route
PassJson(up) ==
    IF up = "up_breaks" THEN JsonResponse(500, "terminated", "ok_empty")
    ELSE JsonResponse(UpStatus(up), "", UpCompletion(up))

\* The copy loop without a try block of its own (server.js:60-71, 187-200):
\* when reader.read() rejects after res.write(), the catch of the route calls
\* res.status(500).json() on a response whose headers are sent, which throws
\* out of the async handler; the process either ends on the unhandled
\* rejection, destroying the connection, or goes on with the response open.
CopyLoop(provider, up, end) ==
    IF up = "up_breaks" THEN StreamResponse(UpLines(provider, up), TRUE, end)
    ELSE StreamResponse(UpLines(provider, up), up \notin UpstreamErrors, "ended")

\* data: {"type":"error",...}\n\n written by the catch of the copy loop
ErrorEvent == Sse("ant_error")

\* app.post('/api/proxy/openai/*'), server.js:47-79
OpenAIProxy(stream, up, end) ==
    IF up = "up_rejects" THEN JsonResponse(500, "fetch failed", "ok_empty")
    ELSE IF stream THEN CopyLoop("openai", up, end)
    ELSE PassJson(up)

\* app.post('/api/proxy/anthropic/*'), server.js:97-145
AnthropicProxy(stream, up) ==
    IF up = "up_rejects" THEN JsonResponse(500, "fetch failed", "ok_empty")
    ELSE IF UpStatus(up) # 200 THEN JsonResponse(UpStatus(up), "", "ok_empty")
    ELSE IF stream
      THEN IF up = "up_breaks"
             THEN StreamResponse(UpLines("anthropic", up) \o <<ErrorEvent, <<>>>>, TRUE, "ended")
             ELSE StreamResponse(UpLines("anthropic", up), TRUE, "ended")
    ELSE PassJson(up)

\* app.post('/api/proxy/google/*'), server.js:166-209; the path of a
\* streaming request contains streamGenerateContent (providers.js:685-687)
GoogleProxy(stream, up, end) ==
    IF up = "up_rejects" THEN JsonResponse(500, "fetch failed", "ok_empty")
    ELSE IF UpStatus(up) # 200 THEN JsonResponse(UpStatus(up), "", "ok_empty")
    ELSE IF stream THEN CopyLoop("google", up, end)
    ELSE PassJson(up)

\* the fate of a request answered with a non-OK status and the upstream's body
StatusFate(status) ==
    CASE status = 401 -> "http_401"
      [] status = 429 -> "http_429"
      [] status = 529 -> "http_529"
      [] OTHER -> "http_500"

\* error.error?.message || `HTTP ${response.status}` on the body of a non-OK
\* response (providers.js:89-92, 291-296, 703-706)
ClientMessage(resp) ==
    IF resp.message # "" THEN resp.message ELSE ThrownMessage(StatusFate(resp.status))

\* the catch of makeRequest (providers.js:142-150, 414-456, 775-783)
ClientCatch(provider, message) ==
    IF provider = "anthropic" THEN ErrorRecord(AnthropicCatch(message), <<>>)
    ELSE ErrorRecord(parseError(message, provider), <<>>)

\* makeRequest on the response of the proxy that has ended or was reset
ClientRecord(provider, onChunk, resp) ==
    LET body == Encode(Render(TermLines(resp.lines, resp.terminated)))
    IN IF resp.status # 200 THEN ClientCatch(provider, ClientMessage(resp))
       ELSE IF onChunk
         THEN IF resp.end = "reset"
                THEN StreamCatch(provider, LoopBody(provider, NewStream, body, FALSE),
                                 "network error")
                ELSE DecodeWhole(provider, body, FALSE)
       ELSE MakeRequest(provider, resp.completion, FALSE, FALSE)

ProxyInit ==
    /\ pxProvider \in Providers
    /\ pxStream \in BOOLEAN
    /\ pxUpstream \in UpstreamFates
    /\ pxResponse = <<>>
    /\ pxRecord = <<>>
    /\ pxPhase = "requested"
    /\ DecParked
    /\ ExecParked
    /\ ClassParked
    /\ AppParked
    /\ PriceParked
    /\ ExportParked
    /\ CostParked
    /\ SettingsParked
    /\ HistParked

Unhandled == {"reset", "open"}

OpenAIRoute ==
    /\ pxPhase = "requested" /\ pxProvider = "openai"
    /\ \E end \in Unhandled : pxResponse' = <<OpenAIProxy(pxStream, pxUpstream, end)>>
    /\ pxPhase' = "answered"
    /\ UNCHANGED <<pxProvider, pxStream, pxUpstream, pxRecord>>
    /\ UNCHANGED <<decVars, execVars, classVars, appVars, priceVars, exportVars, costVars, settingsVars, histVars>>

AnthropicRoute ==
    /\ pxPhase = "requested" /\ pxProvider = "anthropic"
    /\ pxResponse' = <<AnthropicProxy(pxStream, pxUpstream)>>
    /\ pxPhase' = "answered"
    /\ UNCHANGED <<pxProvider, pxStream, pxUpstream, pxRecord>>
    /\ UNCHANGED <<decVars, execVars, classVars, appVars, priceVars, exportVars, costVars, settingsVars, histVars>>

GoogleRoute ==
    /\ pxPhase = "requested" /\ pxProvider = "google"
    /\ \E end \in Unhandled : pxResponse' = <<GoogleProxy(pxStream, pxUpstream, end)>>
    /\ pxPhase' = "answered"
    /\ UNCHANGED <<pxProvider, pxStream, pxUpstream, pxRecord>>
    /\ UNCHANGED <<decVars, execVars, classVars, appVars, priceVars, exportVars, costVars, settingsVars, histVars>>

\* makeRequest returns once the response has ended or failed; it waits for
\* ever on a response that stays open
ClientResolve ==
    /\ pxPhase = "answered"
    /\ pxResponse[1].end # "open"
    /\ pxRecord' = <<ClientRecord(pxProvider, pxStream, pxResponse[1])>>
    /\ pxPhase' = "resolved"
    /\ UNCHANGED <<pxProvider, pxStream, pxUpstream, pxResponse>>
    /\ UNCHANGED <<decVars, execVars, classVars, appVars, priceVars, exportVars, costVars, settingsVars, histVars>>

ProxyNext ==
    \/ OpenAIRoute
    \/ AnthropicRoute
    \/ GoogleRoute
    \/ ClientResolve

ProxySpec == ProxyInit /\ [][ProxyNext]_vars

\* ---------------------------------------------------- proxy properties
\* the category an upstream status stands for
CategoryOf(status) ==
    CASE status = 401 -> "auth"
      [] status = 429 -> "rate_limit"
      [] status = 529 -> "overloaded"
      [] OTHER -> "unknown"

ProxiedError == pxPhase = "resolved" /\ pxStream /\ pxUpstream \in UpstreamErrors

\* Where the route tests response.ok (Anthropic, Google), an upstream error
\* status of a streaming request reaches the client as that status and the
\* target resolves as an error.
ErrorStatusPassedWhereTested ==
    ProxiedError /\ pxProvider # "openai" =>
        /\ pxResponse[1].status = UpStatus(pxUpstream)
        /\ ~pxResponse[1].sse
        /\ pxRecord[1].error # Null

\* C34, as stated: for every provider, an upstream HTTP error status of a
\* streaming request is returned to the client as that status, not as a 200
\* event stream, and the target resolves as an error of the matching
\* category.
ErrorStatusReachesClient ==
    ProxiedError =>
        /\ pxResponse[1].status = UpStatus(pxUpstream)
        /\ ~pxResponse[1].sse
        /\ pxRecord[1].error # Null
        /\ (UpStatus(pxUpstream) # 500 =>
              pxRecord[1].errorType = CategoryOf(UpStatus(pxUpstream)))

\* the text the upstream had streamed when its body failed
PartialText(provider) == Flatten(BodyFragments(provider, UpLines(provider, "up_breaks")))

BrokenInProxy ==
    pxPhase = "resolved" /\ pxProvider = "anthropic" /\ pxStream /\ pxUpstream = "up_breaks"

\* After the Anthropic route wrote its error event and ended the response,
\* the record of the target carries the text streamed before the failure.
ProxyFailureKeepsPartialText ==
    BrokenInProxy => pxRecord[1].text = PartialText("anthropic") /\ pxRecord[1].text # <<>>

\* C35, as stated: when the upstream Anthropic stream fails inside the proxy,
\* the error event the proxy writes before ending the response makes the
\* client resolve the target as an error that carries the partial text.
ProxyFailureIsError ==
    BrokenInProxy =>
        /\ pxRecord[1].error # Null
        /\ pxRecord[1].text = PartialText("anthropic")

\* ======================================================================
\* SettingsPanel.validateAndFetchModels, called once
\* ======================================================================
\* What the models endpoint does with the listing request:
\*   fetch_rejects, http_401/429/500   the call fails
\*   ok_unparsable, ok_misshaped       OK status, a body that is not JSON, the object {}
\*   ok_models                         OK status, a list with chat models in it
\*   ok_none                           OK status, a list without any chat model
ListFates ==
    { "fetch_rejects", "http_401", "http_429", "http_500",
      "ok_unparsable", "ok_misshaped", "ok_models", "ok_none" }

ListFailures == {"fetch_rejects", "http_401", "http_429", "http_500", "ok_unparsable"}

\* the ids of the list the endpoint answers with
ListedIds(provider, fate) ==
    CASE fate = "ok_models" /\ provider = "openai" -> <<"gpt-4", "whisper-1", "gpt-4o">>
      [] fate = "ok_models" /\ provider = "google" -> <<"embedding-001", "gemini-1.5-pro">>
      [] fate = "ok_none" /\ provider = "openai" -> <<"whisper-1">>
      [] fate = "ok_none" /\ provider = "google" -> <<"embedding-001">>
      [] OTHER -> <<>>

\* the filter of the listing: ids that include 'gpt-4' or 'gpt-3.5-turbo'
\* (providers.js:37-40), names that include 'gemini' (631-634)
IsChatModel(id) == id \in {"gpt-4", "gpt-4o", "gemini-1.5-pro"}

\* .sort((a, b) => b.id.localeCompare(a.id)): the position of an id in
\* descending order
DescendingRank(id) ==
    CASE id = "gpt-4o" -> 1
      [] id = "gpt-4" -> 2
      [] OTHER -> 1

\* filter(...).sort(...) of a list of ids
FilterAndSort(ids) ==
    LET kept == {ids[i] : i \in {j \in 1..Len(ids) : IsChatModel(ids[j])}}
    IN [i \in 1..Cardinality(kept) |-> CHOOSE id \in kept : DescendingRank(id) = i]

\* OpenAIProvider.listModels, providers.js:23-56
OpenAIListModels(fate) ==
    IF fate \in ListFailures \cup {"ok_misshaped"}
      THEN Rejected(parseOpenAIError(ThrownMessage(fate)).message)
      ELSE Fulfilled(FilterAndSort(ListedIds("openai", fate)))

\* AnthropicProvider.listModels, providers.js:234-260: no request is made
AnthropicListModels(fate) ==
    Fulfilled(<<"claude-3-5-sonnet-20241022", "claude-3-opus-20240229",
                "claude-3-haiku-20240307">>)

\* GoogleProvider.listModels, providers.js:615-675: (data.models || []) on
\* the object {}, the known models from the catch
GoogleListModels(fate) ==
    IF fate \in ListFailures
      THEN Fulfilled(<<"gemini-1.5-pro-latest", "gemini-1.5-flash-latest", "gemini-pro">>)
      ELSE Fulfilled(FilterAndSort(ListedIds("google", fate)))

\* ProviderFactory.listModels, providers.js:895-903
FactoryListModels(provider, fate) ==
    LET listed == CASE provider = "openai"    -> OpenAIListModels(fate)
                    [] provider = "anthropic" -> AnthropicListModels(fate)
                    [] provider = "google"    -> GoogleListModels(fate)
    IN IF listed.settle = "rejected" THEN <<>> ELSE listed.record

\* m.id === pref || m.id.includes(pref)
MatchesPreference(id, pref) ==
    \/ id = pref
    \/ pref = "gpt-4" /\ id = "gpt-4o"
    \/ pref = "gemini-1.5-pro" /\ id = "gemini-1.5-pro-latest"
    \/ pref = "gemini-1.5-flash" /\ id = "gemini-1.5-flash-latest"

Preferences(provider) ==
    CASE provider = "openai" -> <<"gpt-4-turbo", "gpt-4o", "gpt-4">>
      [] provider = "anthropic" -> <<"claude-3-5-sonnet-20241022", "claude-3-opus-20240229">>
      [] provider = "google" -> <<"gemini-1.5-pro", "gemini-1.5-flash", "gemini-pro">>

\* models.find(...) for one preference: the first match, <<>> for none
FindPreferred(models, pref) ==
    LET hits == {i \in 1..Len(models) : MatchesPreference(models[i], pref)}
    IN IF hits = {} THEN <<>>
       ELSE <<models[CHOOSE i \in hits : \A j \in hits : i <= j]>>

\* selectDefaultModels(provider), part_005:131-175: the enabled models
\* after it
selectDefaultModels(provider, models, enabled) ==
    IF Len(enabled) > 0 \/ Len(models) = 0 THEN enabled
    ELSE LET prefs == Preferences(provider)
             found == {k \in 1..Len(prefs) : FindPreferred(models, prefs[k]) # <<>>}
         IN IF found = {} THEN <<models[1]>>
            ELSE FindPreferred(models, prefs[CHOOSE k \in found : \A j \in found : k <= j])

SettingsKeys == {<<>>, <<"SP">>, <<"k", "e", "y">>}

SettingsInit ==
    /\ svProvider \in Providers
    /\ svKey \in SettingsKeys
    /\ svFate \in ListFates
    /\ svValidation = "none"
    /\ svAvailable = <<>>
    /\ svEnabled \in {<<>>, <<"gpt-4">>}
    /\ svPhase = "called"
    /\ DecParked
    /\ ExecParked
    /\ ClassParked
    /\ AppParked
    /\ PriceParked
    /\ ExportParked
    /\ CostParked
    /\ ProxyParked
    /\ HistParked

\* part_005:96-107, up to the await
ValidateCall ==
    /\ svPhase = "called"
    /\ IF Trim(svKey) = <<>>
         THEN svValidation' = "none" /\ svPhase' = "returned"
         ELSE svValidation' = "loading" /\ svPhase' = "listing"
    /\ UNCHANGED <<svProvider, svKey, svFate, svAvailable, svEnabled>>
    /\ UNCHANGED <<decVars, execVars, classVars, appVars, priceVars, exportVars, costVars, proxyVars, histVars>>

\* part_005:109-128, after the await
ValidateListed ==
    /\ svPhase = "listing"
    /\ LET models == FactoryListModels(svProvider, svFate)
       IN IF Len(models) > 0
            THEN /\ svAvailable' = models
                 /\ svValidation' = "valid"
                 /\ svEnabled' = selectDefaultModels(svProvider, models, svEnabled)
            ELSE /\ svValidation' = "invalid"
                 /\ UNCHANGED <<svAvailable, svEnabled>>
    /\ svPhase' = "returned"
    /\ UNCHANGED <<svProvider, svKey, svFate>>
    /\ UNCHANGED <<decVars, execVars, classVars, appVars, priceVars, exportVars, costVars, proxyVars, histVars>>

SettingsNext ==
    \/ ValidateCall
    \/ ValidateListed

SettingsSpec == SettingsInit /\ [][SettingsNext]_vars

\* ------------------------------------------------ key validation properties
Validated == svPhase = "returned" /\ Trim(svKey) # <<>>

\* For a provider whose listing is a request that can fail and whose adapter
\* reports the failure (OpenAI), a failed listing ends invalid and valid
\* means the listing succeeded.
ValidMeansListedWhereReported ==
    Validated /\ svProvider = "openai" =>
        /\ (svFate \in ListFailures => svValidation = "invalid")
        /\ (svValidation = "valid" => svFate = "ok_models")

\* C36, as stated: for each of the three providers, a key whose model
\* listing fails ends in validation state invalid, and a key ends in state
\* valid only when its listing call succeeded.
ValidMeansListed ==
    Validated =>
        /\ (svFate \in ListFailures => svValidation = "invalid")
        /\ (svValidation = "valid" => svFate \in {"ok_models", "ok_none", "ok_misshaped"})

\* --------------------------------------------------- record order properties
\* C38, as stated: the records of the retained result set are in the order
\* in which the targets were dispatched, record i being that of card i,
\* whatever the order in which the targets resolve.
RecordsInDispatchOrder ==
    currentResults.set =>
        \A i \in 1..Len(currentResults.responses) :
            currentResults.responses[i].model = ModelConfig(i).name

\* ======================================================================
\* A session: a submit after an earlier one
\* ======================================================================
\* the prompt of another submit
OtherPrompt == <<"H", "i">>

Prompts == {PromptText, OtherPrompt}

\* the click on the submit button, once more than a single dispatch needs
SessionSubmit(prompt) == handleSubmitWithin(prompt, MaxSubmits + 1) /\ UNCHANGED streams

\* what an endpoint does with a request of the session: a completion, no
\* connection
SessionFates == {"ok_text", "fetch_rejects"}

\* every key is configured, or none is
SessionKeys == {[p \in Providers |-> TRUE], [p \in Providers |-> FALSE]}

SessionInit ==
    /\ apiKeys \in SessionKeys
    /\ streamingEnabled \in BOOLEAN
    /\ currentPrompt = <<>>
    /\ inputDisabled = FALSE
    /\ cards = [t \in Targets |-> NewCard]
    /\ req = [t \in Targets |-> "none"]
    /\ fetched = {}
    /\ results = <<>>
    /\ currentResults = NoResults
    /\ lastAlert = "none"
    /\ pc = "idle"
    /\ submits = 0
    /\ retrying = [t \in Targets |-> 0]
    /\ retried = [t \in Targets |-> 0]
    /\ streams = <<>>
    /\ NoHistory
    /\ DecParked
    /\ ExecParked
    /\ ClassParked
    /\ PriceParked
    /\ ExportParked
    /\ CostParked
    /\ ProxyParked
    /\ SettingsParked

SessionNext ==
    \/ \E prompt \in Prompts : SessionSubmit(prompt)
    \/ \E t \in Targets : GoSilent(t)
    \/ \E t \in Targets, fate \in SessionFates : Respond(t, fate)
    \/ \E t \in Targets : RetryClick(t)
    \/ \E t \in Targets, fate \in SessionFates : RetryRespond(t, fate)

SessionSpec == SessionInit /\ [][SessionNext]_vars

\* ---------------------------------------------------- session properties
\* the cards whose record is in the retained result set
RetainedCards ==
    {t \in Targets : \E i \in 1..Len(currentResults.responses) :
                        currentResults.responses[i].modelId = ModelConfig(t).id}

\* The records a dispatch leaves in its result set were all produced for the
\* prompt stored with the set: as long as no retry has replaced a record,
\* the set is of one prompt.
DispatchRecordsAreOfThePrompt ==
    currentResults.set /\ (\A t \in Targets : retried[t] = 0) =>
        \A t \in RetainedCards : madeFor[t] = currentResults.prompt

\* C37, as stated: every record of the retained result set was produced for
\* the prompt stored with the set; a retry started for an earlier prompt
\* never leaves its record in the set of a later batch.
RecordsAreOfThePrompt ==
    currentResults.set =>
        \A t \in RetainedCards : madeFor[t] = currentResults.prompt

\* ======================================================================
\* The prompt input over several submits
\* ======================================================================
\* retryModel never touches the prompt input (part_003:881-935): the
\* submits of a session and the answers to their requests.
InputNext ==
    \/ SessionSubmit(PromptText)
    \/ \E t \in Targets : GoSilent(t)
    \/ \E t \in Targets, fate \in SessionFates : Respond(t, fate)

InputSpec == SessionInit /\ [][InputNext]_vars

\* --------------------------------------------------- prompt input properties
\* a request of a dispatch has not resolved
BatchInFlight == \E t \in Targets : req[t] \in {"inflight", "reading", "hung"}

====
